---------------------------- MODULE Spec2Model ----------------------------
(***************************************************************************)
(* Model of the healthcare facility store (DatabaseManager), its attribute *)
(* codec and the function dispatcher (HealthcareMapAI) of src/ai.py.       *)
(*                                                                         *)
(* Text is a sequence of one-character strings, so that serialisation,     *)
(* parsing and SQL LIKE act on characters.  A Python value is a record     *)
(* [kind, val]: kind is one of "bool", "int", "float", "str", "none",      *)
(* "list", "dict", "object"; a float is held in tenths (15 is 1.5); a dict *)
(* is the sequence of its <<key, value>> pairs in insertion order; an      *)
(* "object" is any value json.dumps cannot serialise.                      *)
(***************************************************************************)
EXTENDS Integers, Sequences, FiniteSets, TLC

VARIABLES
    db,      \* the committed SQLite database: the three relations
    now,     \* the wall clock, in seconds after the epoch of the model
    last,    \* the last call made and what it returned
    rd,      \* a get_facility call in progress on its own connection
    cx,      \* the codec under test: a value, its stored pair, its decoding
    conn,    \* a with-block on get_connection in progress, step by step
    memo,    \* one earlier dispatch: what it was called with, what came of it
    gc,      \* a generate_function_call in progress: requests sent, answers
    sched    \* schedule_appointment calls in progress, one per caller

vars == <<db, now, last, rd, cx, conn, memo, gc, sched>>

-----------------------------------------------------------------------------
(* Bounds of the model *)

MaxClock == 1

MaxAppointments == 2

-----------------------------------------------------------------------------
(* Characters and text *)

Digits == <<"0", "1", "2", "3", "4", "5", "6", "7", "8", "9">>

UpperChars == <<"A", "B", "C", "D", "E", "F", "G", "H", "I", "J", "K", "L", "M",
                "N", "O", "P", "Q", "R", "S", "T", "U", "V", "W", "X", "Y", "Z">>

LowerChars == <<"a", "b", "c", "d", "e", "f", "g", "h", "i", "j", "k", "l", "m",
                "n", "o", "p", "q", "r", "s", "t", "u", "v", "w", "x", "y", "z">>

IsDigit(c) == \E i \in 1..10 : Digits[i] = c

DigitVal(c) == (CHOOSE i \in 1..10 : Digits[i] = c) - 1

\* str.lower() on one ASCII character; SQLite's LIKE folds the same way.
LowerChar(c) ==
    IF \E i \in 1..26 : UpperChars[i] = c
    THEN LowerChars[CHOOSE i \in 1..26 : UpperChars[i] = c]
    ELSE c

Lower(s) == [i \in 1..Len(s) |-> LowerChar(s[i])]

\* str(n) of a Python int, also json.dumps(n).
RECURSIVE NatToStr(_)
NatToStr(n) ==
    IF n < 10 THEN <<Digits[n + 1]>>
    ELSE NatToStr(n \div 10) \o <<Digits[(n % 10) + 1]>>

IntToStr(n) == IF n < 0 THEN <<"-">> \o NatToStr(-n) ELSE NatToStr(n)

\* repr of a float held in tenths: 15 is 1.5, 20 is 2.0, -5 is -0.5.
FloatRepr(t) ==
    LET a == IF t < 0 THEN -t ELSE t
    IN  (IF t < 0 THEN <<"-">> ELSE <<>>)
            \o NatToStr(a \div 10) \o <<".", Digits[(a % 10) + 1]>>

\* The digits s[i..j] as a number.
RECURSIVE DigitsVal(_, _, _)
DigitsVal(s, i, j) ==
    IF j < i THEN 0 ELSE 10 * DigitsVal(s, i, j - 1) + DigitVal(s[j])

\* The first index >= i of s that holds no digit.
RECURSIVE SkipDigits(_, _)
SkipDigits(s, i) ==
    IF i <= Len(s) /\ IsDigit(s[i]) THEN SkipDigits(s, i + 1) ELSE i

\* The first index >= i of s that holds no space.
RECURSIVE SkipWs(_, _)
SkipWs(s, i) ==
    IF i <= Len(s) /\ s[i] = " " THEN SkipWs(s, i + 1) ELSE i

\* Whether text t stands at index i of s.
StartsAt(s, i, t) ==
    /\ i + Len(t) - 1 <= Len(s)
    /\ \A k \in 1..Len(t) : s[i + k - 1] = t[k]

T_true == <<"t", "r", "u", "e">>

T_false == <<"f", "a", "l", "s", "e">>

T_null == <<"n", "u", "l", "l">>

-----------------------------------------------------------------------------
(* Python values *)

PyBool(b) == [kind |-> "bool", val |-> b]

PyInt(n) == [kind |-> "int", val |-> n]

PyFloat(t) == [kind |-> "float", val |-> t]

PyStr(s) == [kind |-> "str", val |-> s]

PyList(items) == [kind |-> "list", val |-> items]

PyDict(pairs) == [kind |-> "dict", val |-> pairs]

PyNone == [kind |-> "none", val |-> 0]

\* A value json.dumps rejects with TypeError (a set, bytes, an object).
PyObject == [kind |-> "object", val |-> 0]

\* dict.get(key, default) on a dict value.
DictHas(d, key) == \E i \in 1..Len(d.val) : d.val[i][1] = key

DictGet(d, key, default) ==
    IF DictHas(d, key)
    THEN d.val[CHOOSE i \in 1..Len(d.val) : d.val[i][1] = key][2]
    ELSE default

-----------------------------------------------------------------------------
(* json.dumps *)

\* The keys json.dumps accepts in a dict; any other key is a TypeError.
JsonKeyKinds == {"str", "int", "float", "bool", "none"}

\* Whether json.dumps(v) returns rather than raising TypeError.
RECURSIVE Serializable(_)
Serializable(v) ==
    CASE v.kind = "object" -> FALSE
      [] v.kind = "list" -> \A i \in 1..Len(v.val) : Serializable(v.val[i])
      [] v.kind = "dict" ->
            \A i \in 1..Len(v.val) :
                /\ v.val[i][1].kind \in JsonKeyKinds
                /\ Serializable(v.val[i][2])
      [] OTHER -> TRUE

\* The body of a JSON string: a quote and a backslash are escaped.
RECURSIVE Escape(_)
Escape(s) ==
    IF s = <<>> THEN <<>>
    ELSE (IF Head(s) \in {"\"", "\\"} THEN <<"\\", Head(s)>> ELSE <<Head(s)>>)
            \o Escape(Tail(s))

Quote(s) == <<"\"">> \o Escape(s) \o <<"\"">>

\* The text json.dumps writes for a dict key: every key becomes a string.
KeyText(k) ==
    CASE k.kind = "str" -> k.val
      [] k.kind = "int" -> IntToStr(k.val)
      [] k.kind = "float" -> FloatRepr(k.val)
      [] k.kind = "bool" -> IF k.val THEN T_true ELSE T_false
      [] OTHER -> T_null

RECURSIVE Dumps(_)
Dumps(v) ==
    CASE v.kind = "bool" -> IF v.val THEN T_true ELSE T_false
      [] v.kind = "int" -> IntToStr(v.val)
      [] v.kind = "float" -> FloatRepr(v.val)
      [] v.kind = "str" -> Quote(v.val)
      [] v.kind = "none" -> T_null
      [] v.kind = "list" ->
            LET RECURSIVE Items(_)
                Items(k) ==
                    IF k > Len(v.val) THEN <<>>
                    ELSE (IF k > 1 THEN <<",", " ">> ELSE <<>>)
                            \o Dumps(v.val[k]) \o Items(k + 1)
            IN  <<"[">> \o Items(1) \o <<"]">>
      [] v.kind = "dict" ->
            LET RECURSIVE Pairs(_)
                Pairs(k) ==
                    IF k > Len(v.val) THEN <<>>
                    ELSE (IF k > 1 THEN <<",", " ">> ELSE <<>>)
                            \o Quote(KeyText(v.val[k][1])) \o <<":", " ">>
                            \o Dumps(v.val[k][2]) \o Pairs(k + 1)
            IN  <<"{">> \o Pairs(1) \o <<"}">>

-----------------------------------------------------------------------------
(* json.loads: a recursive-descent parser over the characters.  A parse    *)
(* step returns [ok, val, next]: next is the index after what it read.     *)

ParseFail == [ok |-> FALSE, val |-> PyNone, next |-> 0]

ParseOk(v, n) == [ok |-> TRUE, val |-> v, next |-> n]

\* d[key] = value on the pairs of a dict: a repeated key keeps its place.
DictPut(pairs, key, value) ==
    IF \E i \in 1..Len(pairs) : pairs[i][1] = key
    THEN [i \in 1..Len(pairs) |->
            IF pairs[i][1] = key THEN <<key, value>> ELSE pairs[i]]
    ELSE Append(pairs, <<key, value>>)

\* The string whose opening quote is at i - 1: acc is what was read so far.
RECURSIVE ScanString(_, _, _)
ScanString(s, i, acc) ==
    IF i > Len(s) THEN ParseFail
    ELSE IF s[i] = "\"" THEN ParseOk(PyStr(acc), i + 1)
    ELSE IF s[i] = "\\"
         THEN IF i + 1 <= Len(s) /\ s[i + 1] \in {"\"", "\\"}
              THEN ScanString(s, i + 2, Append(acc, s[i + 1]))
              ELSE ParseFail
    ELSE ScanString(s, i + 1, Append(acc, s[i]))

\* A JSON number at i: -? digits (. digit)?.  The floats of the model have
\* one fractional digit; an integer part has no leading zero.
ParseNumber(s, i) ==
    LET neg == i <= Len(s) /\ s[i] = "-"
        b == IF neg THEN i + 1 ELSE i
        e == SkipDigits(s, b)
        ip == DigitsVal(s, b, e - 1)
        sign == IF neg THEN -1 ELSE 1
    IN  IF e = b \/ (e - b > 1 /\ s[b] = "0") THEN ParseFail
        ELSE IF e <= Len(s) /\ s[e] = "."
             THEN IF e + 1 <= Len(s) /\ IsDigit(s[e + 1])
                        /\ SkipDigits(s, e + 1) = e + 2
                  THEN ParseOk(PyFloat(sign * (10 * ip + DigitVal(s[e + 1]))), e + 2)
                  ELSE ParseFail
        ELSE ParseOk(PyInt(sign * ip), e)

RECURSIVE ParseValue(_, _)
RECURSIVE ParseItems(_, _, _)
RECURSIVE ParsePairs(_, _, _)

\* The items of an array, the first at i (after white space); acc is the
\* items read so far.
ParseItems(s, i, acc) ==
    LET r == ParseValue(s, i)
        j == SkipWs(s, r.next)
    IN  IF ~r.ok \/ j > Len(s) THEN ParseFail
        ELSE IF s[j] = "," THEN ParseItems(s, SkipWs(s, j + 1), Append(acc, r.val))
        ELSE IF s[j] = "]" THEN ParseOk(PyList(Append(acc, r.val)), j + 1)
        ELSE ParseFail

\* The pairs of an object, the first key at i (after white space).
ParsePairs(s, i, acc) ==
    IF i > Len(s) \/ s[i] # "\"" THEN ParseFail
    ELSE
        LET k == ScanString(s, i + 1, <<>>)
            c == SkipWs(s, k.next)
        IN  IF ~k.ok \/ c > Len(s) \/ s[c] # ":" THEN ParseFail
            ELSE
                LET r == ParseValue(s, SkipWs(s, c + 1))
                    j == SkipWs(s, r.next)
                    got == DictPut(acc, k.val, r.val)
                IN  IF ~r.ok \/ j > Len(s) THEN ParseFail
                    ELSE IF s[j] = "," THEN ParsePairs(s, SkipWs(s, j + 1), got)
                    ELSE IF s[j] = "}" THEN ParseOk(PyDict(got), j + 1)
                    ELSE ParseFail

ParseValue(s, i) ==
    IF i > Len(s) THEN ParseFail
    ELSE IF s[i] = "\"" THEN ScanString(s, i + 1, <<>>)
    ELSE IF s[i] = "[" THEN
        LET j == SkipWs(s, i + 1)
        IN  IF j <= Len(s) /\ s[j] = "]" THEN ParseOk(PyList(<<>>), j + 1)
            ELSE ParseItems(s, j, <<>>)
    ELSE IF s[i] = "{" THEN
        LET j == SkipWs(s, i + 1)
        IN  IF j <= Len(s) /\ s[j] = "}" THEN ParseOk(PyDict(<<>>), j + 1)
            ELSE ParsePairs(s, j, <<>>)
    ELSE IF StartsAt(s, i, T_true) THEN ParseOk(PyBool(TRUE), i + 4)
    ELSE IF StartsAt(s, i, T_false) THEN ParseOk(PyBool(FALSE), i + 5)
    ELSE IF StartsAt(s, i, T_null) THEN ParseOk(PyNone, i + 4)
    ELSE ParseNumber(s, i)

\* json.loads(s): [ok, val]; ok is FALSE where it raises JSONDecodeError.
Loads(s) ==
    LET r == ParseValue(s, SkipWs(s, 1))
    IN  IF r.ok /\ SkipWs(s, r.next) = Len(s) + 1
        THEN [ok |-> TRUE, val |-> r.val]
        ELSE [ok |-> FALSE, val |-> PyNone]

\* s.strip() as the pair of its first and last index.
RECURSIVE StripEnd(_, _)
StripEnd(s, j) == IF j >= 1 /\ s[j] = " " THEN StripEnd(s, j - 1) ELSE j

\* int(s): [ok, val]; ok is FALSE where it raises ValueError.
PyIntOf(s) ==
    LET b0 == SkipWs(s, 1)
        e == StripEnd(s, Len(s))
        signed == b0 <= e /\ s[b0] \in {"-", "+"}
        b == IF signed THEN b0 + 1 ELSE b0
    IN  IF b <= e /\ SkipDigits(s, b) = e + 1
        THEN [ok |-> TRUE,
              val |-> PyInt((IF signed /\ s[b0] = "-" THEN -1 ELSE 1)
                                * DigitsVal(s, b, e))]
        ELSE [ok |-> FALSE, val |-> PyNone]

\* float(s): [ok, val]; a text without a fraction is a whole float.
PyFloatOf(s) ==
    LET b0 == SkipWs(s, 1)
        e == StripEnd(s, Len(s))
        signed == b0 <= e /\ s[b0] \in {"-", "+"}
        b == IF signed THEN b0 + 1 ELSE b0
        d == SkipDigits(s, b)
        sign == IF signed /\ s[b0] = "-" THEN -1 ELSE 1
    IN  IF b <= e /\ d = e + 1
        THEN [ok |-> TRUE, val |-> PyFloat(sign * 10 * DigitsVal(s, b, e))]
        ELSE IF b <= d /\ d + 1 = e /\ s[d] = "." /\ IsDigit(s[e])
        THEN [ok |-> TRUE,
              val |-> PyFloat(sign * (10 * DigitsVal(s, b, d - 1) + DigitVal(s[e])))]
        ELSE [ok |-> FALSE, val |-> PyNone]

-----------------------------------------------------------------------------
(* The attribute codec of DatabaseManager *)

\* A _determine_attribute_type that tests int before bool: a bool is an
\* instance of int.
_determine_attribute_type_IntFirst(value) ==
    IF value.kind \in {"bool", "int"} THEN "integer"
    ELSE IF value.kind = "float" THEN "float"
    ELSE IF value.kind \in {"dict", "list"} THEN "json"
    ELSE "text"

\* A tagging that takes every number for an integer.
_determine_attribute_type_NumbersAsInteger(value) ==
    IF value.kind = "bool" THEN "boolean"
    ELSE IF value.kind \in {"int", "float"} THEN "integer"
    ELSE IF value.kind \in {"dict", "list"} THEN "json"
    ELSE "text"

_determine_attribute_type(value) ==
    IF value.kind = "bool" THEN "boolean"
    ELSE IF value.kind = "int" THEN "integer"
    ELSE IF value.kind = "float" THEN "float"
    ELSE IF value.kind \in {"dict", "list"} THEN "json"
    ELSE "text"

\* value_str = json.dumps(value) if not isinstance(value, str) else value
\* [raised, text]: raised where json.dumps raises TypeError.
SerializeValue(value) ==
    IF value.kind = "str" THEN [raised |-> FALSE, text |-> value.val]
    ELSE IF Serializable(value) THEN [raised |-> FALSE, text |-> Dumps(value)]
    ELSE [raised |-> TRUE, text |-> <<>>]

\* [raised, val]: raised where int() or float() raises ValueError.
_parse_attribute_value(value_str, attr_type) ==
    IF attr_type = "json" THEN
        LET r == Loads(value_str)
        IN  [raised |-> FALSE, val |-> IF r.ok THEN r.val ELSE PyStr(value_str)]
    ELSE IF attr_type = "boolean" THEN
        [raised |-> FALSE, val |-> PyBool(Lower(value_str) = T_true)]
    ELSE IF attr_type = "integer" THEN
        LET r == PyIntOf(value_str) IN [raised |-> ~r.ok, val |-> r.val]
    ELSE IF attr_type = "float" THEN
        LET r == PyFloatOf(value_str) IN [raised |-> ~r.ok, val |-> r.val]
    ELSE [raised |-> FALSE, val |-> PyStr(value_str)]

-----------------------------------------------------------------------------
(* Ordering of text (SQLite's BINARY collation) and SQL LIKE *)

\* The characters of the model in ASCII order.
Ascii == <<" ", "\"", "%", "'", ",", "-", ".">> \o Digits \o <<":">> \o UpperChars
            \o <<"[", "\\", "]", "_">> \o LowerChars \o <<"{", "}">>

CharCode(c) == CHOOSE i \in 1..Len(Ascii) : Ascii[i] = c

\* a < b, character by character; a proper prefix sorts first.
RECURSIVE TextLess(_, _)
TextLess(a, b) ==
    IF b = <<>> THEN FALSE
    ELSE IF a = <<>> THEN TRUE
    ELSE IF Head(a) = Head(b) THEN TextLess(Tail(a), Tail(b))
    ELSE CharCode(Head(a)) < CharCode(Head(b))

\* The texts of a set in ascending order (ORDER BY on a TEXT column).
RECURSIVE SortTexts(_)
SortTexts(S) ==
    IF S = {} THEN <<>>
    ELSE LET m == CHOOSE x \in S : \A y \in S \ {x} : TextLess(x, y)
         IN  <<m>> \o SortTexts(S \ {m})

\* text LIKE pattern from index i of text and j of pattern: % is any run of
\* characters, _ any one character, letters match without regard to case.
RECURSIVE LikeAt(_, _, _, _)
LikeAt(text, i, pattern, j) ==
    IF j > Len(pattern) THEN i > Len(text)
    ELSE IF pattern[j] = "%"
         THEN \E k \in i..(Len(text) + 1) : LikeAt(text, k, pattern, j + 1)
    ELSE /\ i <= Len(text)
         /\ \/ pattern[j] = "_"
            \/ LowerChar(pattern[j]) = LowerChar(text[i])
         /\ LikeAt(text, i + 1, pattern, j + 1)

Like(text, pattern) == LikeAt(text, 1, pattern, 1)

-----------------------------------------------------------------------------
(* The database: three relations.  Python's sqlite3 leaves SQLite's        *)
(* foreign-key enforcement off unless PRAGMA foreign_keys = ON is issued   *)
(* on the connection, and get_connection issues none: the FOREIGN KEY ...  *)
(* ON DELETE CASCADE clauses of the schema are parsed and not enforced.    *)

EmptyDb == [facilities |-> {}, facility_services |-> {}, facility_attributes |-> {}]

\* The row INSERT OR REPLACE INTO facilities writes: created_at takes its
\* default and updated_at is given, both CURRENT_TIMESTAMP.
FacilityRow(facility_id, f, clock) ==
    [id |-> facility_id, name |-> f.name, facility_type |-> f.facility_type,
     address |-> f.address, latitude |-> f.latitude, longitude |-> f.longitude,
     rating |-> f.rating, phone |-> f.phone,
     created_at |-> clock, updated_at |-> clock]

\* One SQL statement (with the Python that prepares its parameters) on the
\* connection's working copy: [raised, work].
ExecStatement(work, st, clock) ==
    CASE st.op = "replace_facility" ->
            \* id is the PRIMARY KEY: REPLACE deletes the row in conflict.
            [raised |-> FALSE,
             work |-> [work EXCEPT !.facilities =
                        {r \in @ : r.id # st.facility_id}
                            \cup {FacilityRow(st.facility_id, st.fields, clock)}]]
      [] st.op = "delete_services" ->
            [raised |-> FALSE,
             work |-> [work EXCEPT !.facility_services =
                        {r \in @ : r.facility_id # st.facility_id}]]
      [] st.op = "insert_service" ->
            \* UNIQUE(facility_id, service_name): sqlite3.IntegrityError
            IF \E r \in work.facility_services :
                    r.facility_id = st.facility_id /\ r.service_name = st.service_name
            THEN [raised |-> TRUE, work |-> work]
            ELSE [raised |-> FALSE,
                  work |-> [work EXCEPT !.facility_services = @ \cup
                            {[facility_id |-> st.facility_id,
                              service_name |-> st.service_name]}]]
      [] st.op = "delete_attributes" ->
            [raised |-> FALSE,
             work |-> [work EXCEPT !.facility_attributes =
                        {r \in @ : r.facility_id # st.facility_id}]]
      [] st.op = "insert_attribute" ->
            \* json.dumps raises TypeError before the INSERT is executed;
            \* UNIQUE(facility_id, attribute_key): sqlite3.IntegrityError
            LET ser == SerializeValue(st.value)
            IN  IF ser.raised
                   \/ \E r \in work.facility_attributes :
                        r.facility_id = st.facility_id /\ r.attribute_key = st.attribute_key
                THEN [raised |-> TRUE, work |-> work]
                ELSE [raised |-> FALSE,
                      work |-> [work EXCEPT !.facility_attributes = @ \cup
                                {[facility_id |-> st.facility_id,
                                  attribute_key |-> st.attribute_key,
                                  attribute_value |-> ser.text,
                                  attribute_type |-> _determine_attribute_type(st.value)]}]]
      [] st.op = "replace_attribute" ->
            \* INSERT OR REPLACE: the row of the same (facility_id, key) goes.
            LET ser == SerializeValue(st.value)
            IN  IF ser.raised THEN [raised |-> TRUE, work |-> work]
                ELSE [raised |-> FALSE,
                      work |-> [work EXCEPT !.facility_attributes =
                                {r \in @ : ~(r.facility_id = st.facility_id
                                             /\ r.attribute_key = st.attribute_key)}
                                \cup {[facility_id |-> st.facility_id,
                                       attribute_key |-> st.attribute_key,
                                       attribute_value |-> ser.text,
                                       attribute_type |-> _determine_attribute_type(st.value)]}]]
      [] st.op = "touch_facility" ->
            [raised |-> FALSE,
             work |-> [work EXCEPT !.facilities =
                        {IF r.id = st.facility_id
                         THEN [r EXCEPT !.updated_at = clock] ELSE r : r \in @}]]
      [] st.op = "delete_facility" ->
            \* no cascade: foreign keys are not enforced on this connection
            [raised |-> FALSE,
             work |-> [work EXCEPT !.facilities = {r \in @ : r.id # st.facility_id}]]

\* The body of a with-block: the statements in order, the k-th of them
\* first; statement number fault fails with sqlite3.OperationalError (the
\* storage gives out), 0 for none.  [raised, work]: work is the working copy
\* where the body ended.
RECURSIVE RunStatements(_, _, _, _, _)
RunStatements(work, stmts, k, fault, clock) ==
    IF k > Len(stmts) THEN [raised |-> FALSE, work |-> work]
    ELSE IF k = fault THEN [raised |-> TRUE, work |-> work]
    ELSE LET r == ExecStatement(work, stmts[k], clock)
         IN  IF r.raised THEN r
             ELSE RunStatements(r.work, stmts, k + 1, fault, clock)

\* A get_connection that commits what the body did before it raised.
get_connection_CommitOnError(committed, body) ==
    [raised |-> body.raised, db |-> body.work]

\* with self.get_connection() as conn: commit when the body ends without an
\* exception, roll back and re-raise when it raises.  [raised, db].
get_connection(committed, body) ==
    IF body.raised
    THEN [raised |-> TRUE, db |-> committed]
    ELSE [raised |-> FALSE, db |-> body.work]

-----------------------------------------------------------------------------
(* DatabaseManager.  An operation takes the committed database and returns *)
(* what the method returns together with the database it leaves.           *)
(* An attributes argument is a function from key text to Python value (a   *)
(* dict with string keys); services is a sequence of texts.                *)

\* What a method built on one with-block returns: [ret, db], True when the
\* block committed, False when the except clause caught what get_connection
\* re-raised.
Committed(c) == [ret |-> ~c.raised, db |-> c.db]

\* An add_facility without DELETE FROM facility_attributes: the attribute
\* rows of the previous write stay.
AddFacilityStatements_KeepAttributes(facility_id, fields, services, attributes) ==
    LET keys == SortTexts(DOMAIN attributes)
    IN  <<[op |-> "replace_facility", facility_id |-> facility_id, fields |-> fields],
          [op |-> "delete_services", facility_id |-> facility_id]>>
        \o [i \in 1..Len(services) |->
                [op |-> "insert_service", facility_id |-> facility_id,
                 service_name |-> services[i]]]
        \o [i \in 1..Len(keys) |->
                [op |-> "insert_attribute", facility_id |-> facility_id,
                 attribute_key |-> keys[i], value |-> attributes[keys[i]]]]

\* The statements of add_facility's with-block, in the order of the code.
AddFacilityStatements(facility_id, fields, services, attributes) ==
    LET keys == SortTexts(DOMAIN attributes)
    IN  <<[op |-> "replace_facility", facility_id |-> facility_id, fields |-> fields],
          [op |-> "delete_services", facility_id |-> facility_id]>>
        \o [i \in 1..Len(services) |->
                [op |-> "insert_service", facility_id |-> facility_id,
                 service_name |-> services[i]]]
        \o <<[op |-> "delete_attributes", facility_id |-> facility_id]>>
        \o [i \in 1..Len(keys) |->
                [op |-> "insert_attribute", facility_id |-> facility_id,
                 attribute_key |-> keys[i], value |-> attributes[keys[i]]]]

add_facility(committed, facility_id, fields, services, attributes, fault, clock) ==
    LET body == RunStatements(committed,
                    AddFacilityStatements(facility_id, fields, services, attributes),
                    1, fault, clock)
    IN  Committed(get_connection(committed, body))

\* What get_facility returns: None, or the facility as a dict.
NoFacility == [kind |-> "none", val |-> 0]

FacilityDict(row, services, attributes) ==
    [kind |-> "facility",
     val |-> [id |-> row.id, name |-> row.name, facility_type |-> row.facility_type,
              address |-> row.address, latitude |-> row.latitude,
              longitude |-> row.longitude, rating |-> row.rating, phone |-> row.phone,
              created_at |-> row.created_at, updated_at |-> row.updated_at,
              services |-> services, attributes |-> attributes]]

\* SELECT * FROM facilities WHERE id = ?
SelectFacility(d, facility_id) == {r \in d.facilities : r.id = facility_id}

\* SELECT service_name FROM facility_services WHERE facility_id = ?
\* ORDER BY service_name
\* The same rows without the ORDER BY, here in descending order.
SelectServices_Unordered(d, facility_id) ==
    LET sorted == SortTexts({r.service_name : r \in {x \in d.facility_services :
                                                        x.facility_id = facility_id}})
    IN  [i \in 1..Len(sorted) |-> sorted[Len(sorted) + 1 - i]]

SelectServices(d, facility_id) ==
    SortTexts({r.service_name : r \in {x \in d.facility_services :
                                            x.facility_id = facility_id}})

\* SELECT attribute_key, attribute_value, attribute_type
\* FROM facility_attributes WHERE facility_id = ?
SelectAttributes(d, facility_id) ==
    {r \in d.facility_attributes : r.facility_id = facility_id}

\* attributes[key] = value for each parsed row: [raised, attributes].
AttributesDict(parsed) ==
    [raised |-> \E p \in parsed : p.value.raised,
     attributes |->
        [k \in {p.key : p \in parsed} |->
            (CHOOSE p \in parsed : p.key = k).value.val]]

\* The loop over the attribute rows: [raised, attributes].
ParseAttributes(rows) ==
    LET parsed == [r \in rows |->
                    [key |-> r.attribute_key,
                     value |-> _parse_attribute_value(r.attribute_value,
                                                      r.attribute_type)]]
    IN  AttributesDict({parsed[r] : r \in rows})

\* The facility of a row found, once its attribute rows are parsed.
FacilityParsed(rows, services, p) ==
    IF p.raised THEN NoFacility
    ELSE FacilityDict(CHOOSE r \in rows : TRUE, services, p.attributes)

\* get_facility from its three reads: any exception is caught and None is
\* returned.
FacilityFromReads(rows, services, attrRows) ==
    IF rows = {} THEN NoFacility
    ELSE FacilityParsed(rows, services, ParseAttributes(attrRows))

\* get_facility with nothing written between its three SELECTs; fault is
\* TRUE where the storage fails.
get_facility(d, facility_id, fault) ==
    IF fault THEN NoFacility
    ELSE FacilityFromReads(SelectFacility(d, facility_id),
                           SelectServices(d, facility_id),
                           SelectAttributes(d, facility_id))

update_facility_attribute_ReplaceAll(committed, facility_id, attribute_key, attribute_value, fault, clock) ==
    LET body == RunStatements(committed,
                    <<[op |-> "delete_attributes", facility_id |-> facility_id],
                      [op |-> "replace_attribute", facility_id |-> facility_id,
                       attribute_key |-> attribute_key, value |-> attribute_value],
                      [op |-> "touch_facility", facility_id |-> facility_id]>>,
                    1, fault, clock)
    IN  Committed(get_connection(committed, body))

update_facility_attribute(committed, facility_id, attribute_key, attribute_value, fault, clock) ==
    LET body == RunStatements(committed,
                    <<[op |-> "replace_attribute", facility_id |-> facility_id,
                       attribute_key |-> attribute_key, value |-> attribute_value],
                      [op |-> "touch_facility", facility_id |-> facility_id]>>,
                    1, fault, clock)
    IN  Committed(get_connection(committed, body))

delete_facility(committed, facility_id, fault, clock) ==
    LET body == RunStatements(committed,
                    <<[op |-> "delete_facility", facility_id |-> facility_id]>>,
                    1, fault, clock)
    IN  Committed(get_connection(committed, body))

\* The ids as a set: SELECT id FROM facilities names no order.
\* [row[0] for row in rows]: one entry per row, in the order SQLite yields
\* them.
RECURSIVE FirstColumn(_, _)
FirstColumn(rows, column) ==
    IF rows = {} THEN <<>>
    ELSE LET r == CHOOSE x \in rows : TRUE
         IN  <<r[column]>> \o FirstColumn(rows \ {r}, column)

get_all_facility_ids_OfAttributes(d, fault) ==
    IF fault THEN <<>> ELSE FirstColumn(d.facility_attributes, "facility_id")

\* SELECT id FROM facilities, as a list; [] when the storage fails.
get_all_facility_ids(d, fault) ==
    IF fault THEN <<>> ELSE FirstColumn(d.facilities, "id")

-----------------------------------------------------------------------------
(* str() and truthiness of Python values *)

T_True == <<"T", "r", "u", "e">>

T_False == <<"F", "a", "l", "s", "e">>

T_None == <<"N", "o", "n", "e">>

RECURSIVE PyRepr(_)
\* repr(v): a string is quoted with apostrophes.
PyRepr(v) ==
    CASE v.kind = "bool" -> IF v.val THEN T_True ELSE T_False
      [] v.kind = "int" -> IntToStr(v.val)
      [] v.kind = "float" -> FloatRepr(v.val)
      [] v.kind = "str" -> <<"'">> \o v.val \o <<"'">>
      [] v.kind = "list" ->
            LET RECURSIVE Items(_)
                Items(k) ==
                    IF k > Len(v.val) THEN <<>>
                    ELSE (IF k > 1 THEN <<",", " ">> ELSE <<>>)
                            \o PyRepr(v.val[k]) \o Items(k + 1)
            IN  <<"[">> \o Items(1) \o <<"]">>
      [] v.kind = "dict" ->
            LET RECURSIVE Pairs(_)
                Pairs(k) ==
                    IF k > Len(v.val) THEN <<>>
                    ELSE (IF k > 1 THEN <<",", " ">> ELSE <<>>)
                            \o PyRepr(v.val[k][1]) \o <<":", " ">>
                            \o PyRepr(v.val[k][2]) \o Pairs(k + 1)
            IN  <<"{">> \o Pairs(1) \o <<"}">>
      [] OTHER -> T_None

\* str(v)
PyStrOf(v) == IF v.kind = "str" THEN v.val ELSE PyRepr(v)

\* bool(v), as `if v:` takes it
Truthy(v) ==
    CASE v.kind = "none" -> FALSE
      [] v.kind = "bool" -> v.val
      [] v.kind \in {"int", "float"} -> v.val # 0
      [] v.kind \in {"str", "list", "dict"} -> v.val # <<>>
      [] OTHER -> TRUE

\* A number in tenths, as SQLite compares an integer with a real.
Tenths(v) == IF v.kind = "int" THEN 10 * v.val ELSE v.val

-----------------------------------------------------------------------------
(* DatabaseManager.search_facilities.  search_facilities is the call       *)
(* without coordinates (no handler of the dispatcher passes any);          *)
(* search_facilities_near is the call with all its parameters.             *)

\* if facility_type: f.facility_type = ?
TypeCondition(f, facility_type) ==
    Truthy(facility_type) => f.facility_type = facility_type.val

\* if service: INNER JOIN facility_services fs ..., fs.service_name LIKE ?
ServiceCondition(d, f, service) ==
    Truthy(service) =>
        \E fs \in d.facility_services :
            /\ fs.facility_id = f.id
            /\ Like(fs.service_name, <<"%">> \o service.val \o <<"%">>)

\* A rating condition added by `if min_rating:`, which a minimum of 0 skips.
RatingCondition_IfTruthy(f, min_rating) ==
    Truthy(min_rating) =>
        /\ f.rating.kind # "none"
        /\ Tenths(f.rating) >= Tenths(min_rating)

\* if min_rating is not None: f.rating >= ?  (a NULL rating compares to NULL)
RatingCondition(f, min_rating) ==
    min_rating.kind # "none" =>
        /\ f.rating.kind # "none"
        /\ Tenths(f.rating) >= Tenths(min_rating)

\* Attribute filters of which one has to match.
AttributeConditions_AnyOf(d, f, attribute_filters) ==
    DOMAIN attribute_filters # {} =>
        \E k \in DOMAIN attribute_filters :
            \E fa \in d.facility_attributes :
                /\ fa.facility_id = f.id
                /\ fa.attribute_key = k
                /\ Like(fa.attribute_value,
                        <<"%">> \o PyStrOf(attribute_filters[k]) \o <<"%">>)

\* One INNER JOIN facility_attributes fa<idx> per filter, with
\* fa<idx>.attribute_key = ? AND fa<idx>.attribute_value LIKE ?
AttributeConditions(d, f, attribute_filters) ==
    \A k \in DOMAIN attribute_filters :
        \E fa \in d.facility_attributes :
            /\ fa.facility_id = f.id
            /\ fa.attribute_key = k
            /\ Like(fa.attribute_value,
                    <<"%">> \o PyStrOf(attribute_filters[k]) \o <<"%">>)

\* The rows of SELECT DISTINCT f.* ... WHERE <conditions joined by AND>.
SearchRows(d, facility_type, service, min_rating, attribute_filters) ==
    {f \in d.facilities :
        /\ TypeCondition(f, facility_type)
        /\ ServiceCondition(d, f, service)
        /\ RatingCondition(f, min_rating)
        /\ AttributeConditions(d, f, attribute_filters)}

\* The rows of facility_attributes that the join fa<idx> of each key in keys
\* pairs with f: their numbers multiplied.
RECURSIVE AttributeJoins(_, _, _, _)
AttributeJoins(d, f, attribute_filters, keys) ==
    IF keys = {} THEN 1
    ELSE LET k == CHOOSE x \in keys : TRUE
         IN  Cardinality({fa \in d.facility_attributes :
                            /\ fa.facility_id = f.id
                            /\ fa.attribute_key = k
                            /\ Like(fa.attribute_value,
                                    <<"%">> \o PyStrOf(attribute_filters[k]) \o <<"%">>)})
             * AttributeJoins(d, f, attribute_filters, keys \ {k})

\* How many rows of FROM facilities f INNER JOIN ... WHERE ... carry f: one
\* for each combination of a matching service row and a matching attribute
\* row per filter.
JoinedTimes(d, f, facility_type, service, min_rating, attribute_filters) ==
    IF TypeCondition(f, facility_type) /\ RatingCondition(f, min_rating)
    THEN (IF Truthy(service)
          THEN Cardinality({fs \in d.facility_services :
                              /\ fs.facility_id = f.id
                              /\ Like(fs.service_name, <<"%">> \o service.val \o <<"%">>)})
          ELSE 1)
         * AttributeJoins(d, f, attribute_filters, DOMAIN attribute_filters)
    ELSE 0

\* SELECT f.*: every joined row is fetched.
Select_All(times) == times

\* SELECT DISTINCT f.*: equal rows are fetched once.
SelectDistinct(times) == IF times > 0 THEN 1 ELSE 0

\* How many of the rows cursor.fetchall() returns have the id facility_id.
FetchedTimes(d, facility_id, facility_type, service, min_rating, attribute_filters) ==
    LET rows == {f \in d.facilities : f.id = facility_id}
    IN  IF rows = {} THEN 0
        ELSE SelectDistinct(JoinedTimes(d, CHOOSE f \in rows : TRUE, facility_type,
                                        service, min_rating, attribute_filters))

\* The facilities returned, as a set: the query names no order.  Each row is
\* read again with get_facility and dropped when that returns None.
search_facilities(d, facility_type, service, min_rating, attribute_filters, fault) ==
    IF fault THEN {}
    ELSE {g.val : g \in {x \in {get_facility(d, r.id, FALSE) :
                                    r \in SearchRows(d, facility_type, service,
                                                     min_rating, attribute_filters)} :
                                x.kind = "facility"}}

\* 3959 * pi / 180 miles to the degree: hundredths of a mile to the tenth
\* of a degree.
MilesPerTenthDegree == 691

Abs(x) == IF x < 0 THEN -x ELSE x

\* The haversine distance, in hundredths of a mile, of two points given in
\* tenths of a degree.  On one meridian (dlon = 0) the formula is
\* R * |dlat| in radians; the points of the model share their longitude.
_calculate_distance(lat1, lon1, lat2, lon2) ==
    CASE lon1 = lon2 -> MilesPerTenthDegree * Abs(lat2 - lat1)

\* A list of the entries of S in ascending distance_miles, as list.sort
\* leaves it; entries at the same distance stay in the order of the query.
RECURSIVE SortByDistance(_)
SortByDistance(S) ==
    IF S = {} THEN <<>>
    ELSE LET m == CHOOSE x \in S : \A y \in S : x.distance_miles <= y.distance_miles
         IN  <<m>> \o SortByDistance(S \ {m})

\* if max_distance_miles and distance > max_distance_miles: continue
\* (the radius is in tenths of a mile)
BeyondRadius(distance, max_distance_miles) ==
    Truthy(max_distance_miles) /\ distance > 10 * Tenths(max_distance_miles)

\* Each facility found with its distance from (latitude, longitude).
WithDistance(found, latitude, longitude) ==
    {[facility |-> f,
      distance_miles |-> _calculate_distance(Tenths(latitude), Tenths(longitude),
                                             f.latitude, f.longitude)] : f \in found}

\* search_facilities with its coordinates.  [ranked, found, list]: when
\* `latitude and longitude` holds, ranked is TRUE and list is the facilities
\* with their distance_miles, sorted; else found is the set of facilities,
\* none of them with a distance_miles.
search_facilities_near(d, facility_type, service, min_rating, attribute_filters, latitude, longitude, max_distance_miles, fault) ==
    IF fault THEN [ranked |-> FALSE, found |-> {}, list |-> <<>>]
    ELSE IF Truthy(latitude) /\ Truthy(longitude)
    THEN [ranked |-> TRUE, found |-> {},
          list |-> SortByDistance(
                    {e \in WithDistance(search_facilities(d, facility_type, service,
                                            min_rating, attribute_filters, FALSE),
                                        latitude, longitude) :
                        ~BeyondRadius(e.distance_miles, max_distance_miles)})]
    ELSE [ranked |-> FALSE, list |-> <<>>,
          found |-> search_facilities(d, facility_type, service, min_rating,
                                      attribute_filters, FALSE)]

-----------------------------------------------------------------------------
(* HealthcareMapAI: the handlers and the dispatcher.  A handler returns    *)
(* [raised, exc, ret, db]: raised with the exception's name where one      *)
(* leaves the handler, else ret, the dict returned.                        *)

T_appointments == <<"a", "p", "p", "o", "i", "n", "t", "m", "e", "n", "t", "s">>

T_appointment_id == <<"a", "p", "p", "o", "i", "n", "t", "m", "e", "n", "t", "_", "i", "d">>

T_service_type == <<"s", "e", "r", "v", "i", "c", "e", "_", "t", "y", "p", "e">>

T_date == <<"d", "a", "t", "e">>

T_patient_id == <<"p", "a", "t", "i", "e", "n", "t", "_", "i", "d">>

T_status == <<"s", "t", "a", "t", "u", "s">>

T_scheduled == <<"s", "c", "h", "e", "d", "u", "l", "e", "d">>

T_all == <<"a", "l", "l">>

\* {"error": message}
ErrorPayload(message) == [kind |-> "error", val |-> message]

Returned(payload, d) == [raised |-> FALSE, exc |-> "", ret |-> payload, db |-> d]

Raised(exc, d) == [raised |-> TRUE, exc |-> exc, ret |-> ErrorPayload(""), db |-> d]

\* One entry of the facilities list of find_healthcare_facilities.
FormatFacility(facility) ==
    [id |-> facility.id, name |-> facility.name, type |-> facility.facility_type,
     address |-> facility.address,
     coordinates |-> [lat |-> facility.latitude, lon |-> facility.longitude],
     services |-> facility.services, rating |-> facility.rating,
     phone |-> facility.phone, attributes |-> facility.attributes]

\* The dict find_healthcare_facilities returns for its results.
FoundPayload(location, radius, results) ==
    [kind |-> "facilities",
     val |-> [location |-> location, radius_miles |-> radius,
              facilities_found |-> Cardinality(results),
              facilities |-> results]]

\* A find_healthcare_facilities that keeps the facilities within the radius
\* of the point 40.7, -74.0.
find_healthcare_facilities_WithinRadius(d, location, facility_type, service, radius, fault) ==
    Returned(FoundPayload(location, radius,
                {FormatFacility(f) :
                    f \in {g \in search_facilities(d, facility_type, service, PyNone,
                                                   <<>>, fault) :
                            ~BeyondRadius(_calculate_distance(407, -740, g.latitude,
                                                              g.longitude), radius)}}), d)

find_healthcare_facilities(d, location, facility_type, service, radius, fault) ==
    Returned(FoundPayload(location, radius,
                {FormatFacility(f) :
                    f \in search_facilities(d, facility_type, service, PyNone,
                                            <<>>, fault)}), d)

\* A DetailsOf without the `if not facility` return: facility["id"] on None
\* raises TypeError.
DetailsOf_Unchecked(d, facility_id, facility) ==
    IF facility.kind = "none"
    THEN Raised("TypeError", d)
    ELSE Returned([kind |-> "details", val |-> facility.val], d)

\* get_facility_details on what get_facility returned.
DetailsOf(d, facility_id, facility) ==
    IF facility.kind = "none"
    THEN Returned(ErrorPayload("Facility " \o facility_id \o " not found"), d)
    ELSE Returned([kind |-> "details",
                   val |-> [id |-> facility.val.id, name |-> facility.val.name,
                            type |-> facility.val.facility_type,
                            address |-> facility.val.address,
                            coordinates |-> [lat |-> facility.val.latitude,
                                             lon |-> facility.val.longitude],
                            services |-> facility.val.services,
                            rating |-> facility.val.rating,
                            phone |-> facility.val.phone,
                            attributes |-> facility.val.attributes,
                            created_at |-> facility.val.created_at,
                            updated_at |-> facility.val.updated_at,
                            full_details |-> TRUE]], d)

get_facility_details(d, facility_id, fault) ==
    DetailsOf(d, facility_id, get_facility(d, facility_id, fault))

search_facilities_by_service(d, service, location, radius, fault) ==
    find_healthcare_facilities(d, location, PyNone, service, radius, fault)

get_patient_health_data(d, patient_id, data_type) ==
    Returned([kind |-> "patient",
              val |-> [patient_id |-> patient_id, data_type |-> data_type,
                       message |-> "Patient data retrieval requires authentication"]],
             d)

\* datetime.now().strftime('%Y%m%d%H%M%S'): the clock counts the seconds of
\* the first minute of 2024-01-01.
Strftime(clock) ==
    <<"2", "0", "2", "4", "0", "1", "0", "1", "0", "0", "0", "0">> \o <<Digits[(clock \div 10) + 1], Digits[(clock % 10) + 1]>>

AppointmentRecord(appointment_id, service_type, date, patient_id) ==
    PyDict(<< <<PyStr(T_appointment_id), PyStr(appointment_id)>>,
              <<PyStr(T_service_type), service_type>>,
              <<PyStr(T_date), date>>,
              <<PyStr(T_patient_id), patient_id>>,
              <<PyStr(T_status), PyStr(T_scheduled)>> >>)

\* schedule_appointment once the facility was found: append the record to
\* the appointments read and write the attribute back.  writeFault: the
\* statement of update_facility_attribute at which the storage fails.
ScheduleStored(d, facility, facility_id, service_type, date, patient_id, writeFault, clock) ==
    LET appointment_id == <<"a", "p", "t", "_">> \o Strftime(clock)
        attributes == facility.val.attributes
        appointments == IF T_appointments \in DOMAIN attributes
                        THEN attributes[T_appointments] ELSE PyList(<<>>)
        appended == PyList(Append(appointments.val,
                        AppointmentRecord(appointment_id, service_type, date, patient_id)))
        \* the value update_facility_attribute returns is not looked at
        written == update_facility_attribute(d, facility_id, T_appointments, appended,
                                             writeFault, clock)
    IN  IF appointments.kind # "list"
        THEN Raised("AttributeError", d)   \* appointments.append on a non-list
        ELSE Returned([kind |-> "scheduled",
                       val |-> [success |-> TRUE, appointment_id |-> appointment_id,
                                facility |-> facility.val.name,
                                facility_id |-> facility_id,
                                service |-> service_type, date |-> date,
                                patient_id |-> patient_id,
                                status |-> T_scheduled,
                                message |-> "Appointment scheduled successfully"]],
                      written.db)

\* A ScheduleOn without the `if not facility` return: facility.get on None
\* raises AttributeError.
ScheduleOn_Unchecked(d, facility, facility_id, service_type, date, patient_id, writeFault, clock) ==
    IF facility.kind = "none"
    THEN Raised("AttributeError", d)
    ELSE ScheduleStored(d, facility, facility_id, service_type, date, patient_id,
                        writeFault, clock)

\* schedule_appointment on what get_facility returned.
ScheduleOn(d, facility, facility_id, service_type, date, patient_id, writeFault, clock) ==
    IF facility.kind = "none"
    THEN Returned(ErrorPayload("Facility " \o facility_id \o " not found"), d)
    ELSE ScheduleStored(d, facility, facility_id, service_type, date, patient_id,
                        writeFault, clock)

\* readFault: the storage fails in get_facility.
schedule_appointment(d, facility_id, service_type, date, patient_id, readFault, writeFault, clock) ==
    ScheduleOn(d, get_facility(d, facility_id, readFault), facility_id,
               service_type, date, patient_id, writeFault, clock)

\* The keyword parameters of each handler and those without a default.
Params(handler) ==
    CASE handler = "find_healthcare_facilities" ->
            {"location", "facility_type", "service", "radius"}
      [] handler = "get_facility_details" -> {"facility_id"}
      [] handler = "search_facilities_by_service" -> {"service", "location", "radius"}
      [] handler = "get_patient_health_data" -> {"patient_id", "data_type"}
      [] handler = "schedule_appointment" ->
            {"facility_id", "service_type", "date", "patient_id"}

Required(handler) ==
    CASE handler = "find_healthcare_facilities" -> {"location"}
      [] handler = "get_facility_details" -> {"facility_id"}
      [] handler = "search_facilities_by_service" -> {"service", "location"}
      [] handler = "get_patient_health_data" -> {"patient_id"}
      [] handler = "schedule_appointment" -> {"facility_id", "service_type", "date"}

\* arguments[name], or the parameter's default
ArgOr(arguments, name, default) ==
    IF name \in DOMAIN arguments THEN arguments[name] ELSE default

\* handler(**arguments): Python raises TypeError before the body runs when a
\* parameter without default is missing or a keyword is not a parameter.
CallHandler(d, handler, arguments, readFault, writeFault, clock) ==
    IF ~(Required(handler) \subseteq DOMAIN arguments
            /\ DOMAIN arguments \subseteq Params(handler))
    THEN Raised("TypeError", d)
    ELSE CASE handler = "find_healthcare_facilities" ->
                find_healthcare_facilities(d, arguments["location"],
                    ArgOr(arguments, "facility_type", PyNone),
                    ArgOr(arguments, "service", PyNone),
                    ArgOr(arguments, "radius", PyFloat(100)), readFault)
           [] handler = "get_facility_details" ->
                get_facility_details(d, arguments["facility_id"], readFault)
           [] handler = "search_facilities_by_service" ->
                search_facilities_by_service(d, arguments["service"],
                    arguments["location"],
                    ArgOr(arguments, "radius", PyFloat(100)), readFault)
           [] handler = "get_patient_health_data" ->
                get_patient_health_data(d, arguments["patient_id"],
                    ArgOr(arguments, "data_type", PyStr(T_all)))
           [] handler = "schedule_appointment" ->
                schedule_appointment(d, arguments["facility_id"],
                    arguments["service_type"], arguments["date"],
                    ArgOr(arguments, "patient_id", PyNone),
                    readFault, writeFault, clock)

\* An if/elif chain whose last branch is taken by every other name.
HandlerFor_NoElse(function_name) ==
    IF function_name = "find_healthcare_facilities" THEN "find_healthcare_facilities"
    ELSE IF function_name = "get_facility_details" THEN "get_facility_details"
    ELSE IF function_name = "search_facilities_by_service"
         THEN "search_facilities_by_service"
    ELSE IF function_name = "get_patient_health_data" THEN "get_patient_health_data"
    ELSE "schedule_appointment"

\* The handler the if/elif chain of _execute_function selects; "" for the
\* else branch.
HandlerFor(function_name) ==
    IF function_name = "find_healthcare_facilities" THEN "find_healthcare_facilities"
    ELSE IF function_name = "get_facility_details" THEN "get_facility_details"
    ELSE IF function_name = "search_facilities_by_service"
         THEN "search_facilities_by_service"
    ELSE IF function_name = "get_patient_health_data" THEN "get_patient_health_data"
    ELSE IF function_name = "schedule_appointment" THEN "schedule_appointment"
    ELSE ""

\* What _execute_function returns to its caller when the handler ended as r.
Called(handler, r) ==
    [raised |-> r.raised, exc |-> r.exc, db |-> r.db, handler |-> handler,
     ret |-> r.ret]

_execute_function_Cached(d, function_name, arguments, readFault, writeFault, clock) ==
    LET handler == HandlerFor(function_name)
    IN  IF handler = ""
        THEN [raised |-> FALSE, exc |-> "", db |-> d, handler |-> "",
              ret |-> ErrorPayload("Unknown function: " \o function_name)]
        ELSE IF last.op = "_execute_function" /\ last.handler = handler
        THEN [raised |-> last.raised, exc |-> last.exc, db |-> d,
              handler |-> handler, ret |-> last.ret]
        ELSE Called(handler,
                    CallHandler(d, handler, arguments, readFault, writeFault, clock))

\* [raised, exc, ret, db, handler]: handler is the one called, "" for none.
_execute_function(d, function_name, arguments, readFault, writeFault, clock) ==
    LET handler == HandlerFor(function_name)
    IN  IF handler = ""
        THEN [raised |-> FALSE, exc |-> "", db |-> d, handler |-> "",
              ret |-> ErrorPayload("Unknown function: " \o function_name)]
        ELSE Called(handler,
                    CallHandler(d, handler, arguments, readFault, writeFault, clock))

-----------------------------------------------------------------------------
(* The inputs the calls are drawn from *)

FacilityIds == {"hosp_001", "clinic_001"}

\* An id no call ever adds.
MissingId == "missing_id"

T_xray == <<"x", "r", "a", "y">>

T_mri == <<"m", "r", "i">>

T_hospital == <<"h", "o", "s", "p", "i", "t", "a", "l">>

HospitalFields ==
    [name |-> <<"C", "i", "t", "y", " ", "G", "e", "n", "e", "r", "a", "l">>, facility_type |-> T_hospital,
     address |-> <<"1", "2", "3", " ", "M", "a", "i", "n", " ", "S", "t">>, latitude |-> 407, longitude |-> -740,
     rating |-> PyFloat(45), phone |-> PyStr(<<"5", "5", "5", "-", "1", "2", "3", "4">>)]

ClinicFields ==
    [name |-> <<"D", "o", "w", "n", "t", "o", "w", "n", " ", "C", "l", "i", "n", "i", "c">>, facility_type |-> <<"c", "l", "i", "n", "i", "c">>,
     address |-> <<"4", "5", "6", " ", "O", "a", "k", " ", "A", "v", "e">>, latitude |-> 408, longitude |-> -740,
     rating |-> PyNone, phone |-> PyNone]

T_bed_count == <<"b", "e", "d", "_", "c", "o", "u", "n", "t">>

T_emergency_room == <<"e", "m", "e", "r", "g", "e", "n", "c", "y", "_", "r", "o", "o", "m">>

T_accepts_insurance == <<"a", "c", "c", "e", "p", "t", "s", "_", "i", "n", "s", "u", "r", "a", "n", "c", "e">>

T_visiting_hours == <<"v", "i", "s", "i", "t", "i", "n", "g", "_", "h", "o", "u", "r", "s">>

T_room_codes == <<"r", "o", "o", "m", "_", "c", "o", "d", "e", "s">>

T_logo == <<"l", "o", "g", "o">>

\* A dict of one or of two attributes.
Attr(k, v) == [x \in {k} |-> v]

Attr2(k1, v1, k2, v2) == [x \in {k1, k2} |-> IF x = k1 THEN v1 ELSE v2]

AddInput(f, s, a) == [fields |-> f, services |-> s, attributes |-> a]

\* add_facility calls that can succeed: no services and no attributes, one
\* value of each kind the codec tags, service lists in either order, and an
\* appointments attribute that is no list.
GoodAddInputs ==
    {AddInput(HospitalFields, <<>>, <<>>),
     AddInput(HospitalFields, <<T_xray>>,
              Attr2(T_bed_count, PyInt(250), T_emergency_room, PyBool(TRUE))),
     AddInput(ClinicFields, <<T_mri, T_xray>>,
              Attr2(T_visiting_hours, PyStr(<<"2", "4", "/", "7">>), T_bed_count, PyFloat(125))),
     AddInput(HospitalFields, <<T_xray, T_mri>>,
              Attr(T_accepts_insurance,
                   PyList(<<PyStr(<<"M", "e", "d", "i", "c", "a", "r", "e">>), PyStr(<<"B", "l", "u", "e", " ", "C", "r", "o", "s", "s">>)>>))),
     AddInput(ClinicFields, <<T_mri>>, Attr(T_appointments, PyStr(<<"n", "o", "n", "e", " ", "y", "e", "t">>)))}

\* A mapping keyed by integers: json.dumps turns the keys into strings.
IntKeyedAddInputs ==
    {AddInput(ClinicFields, <<T_xray>>,
              Attr(T_room_codes, PyDict(<< <<PyInt(1), PyStr(<<"I", "C", "U">>)>> >>)))}

\* add_facility calls a step of which fails: a service named twice, a value
\* json.dumps rejects.
BadAddInputs ==
    {AddInput(HospitalFields, <<T_xray, T_xray>>, Attr(T_bed_count, PyInt(12))),
     AddInput(ClinicFields, <<T_mri>>,
              Attr2(T_bed_count, PyInt(250), T_logo, PyObject))}

AddInputs == GoodAddInputs \cup IntKeyedAddInputs \cup BadAddInputs

\* The statement at which the storage fails: none, the first, the fourth.
FaultPoints == {0, 1, 4}

FunctionNames ==
    {"find_healthcare_facilities", "get_facility_details",
     "search_facilities_by_service", "get_patient_health_data",
     "schedule_appointment", "unsupported_op"}

T_cardiology == <<"c", "a", "r", "d", "i", "o", "l", "o", "g", "y">>

T_2024_12_15 == <<"2", "0", "2", "4", "-", "1", "2", "-", "1", "5">>

T_here == <<"4", "0", ".", "7", ",", "-", "7", "4", ".", "0">>

\* Argument mappings: complete ones for each handler, the empty mapping
\* (every required argument missing) and one with a keyword no handler takes.
ArgumentInputs ==
    {<<>>,
     [location |-> PyStr(T_here)],
     [location |-> PyStr(T_here), service |-> PyStr(T_xray)],
     [location |-> PyStr(T_here), facility_type |-> PyStr(T_hospital)],
     [location |-> PyStr(T_here), severity |-> PyStr(<<"c", "r", "i", "t", "i", "c", "a", "l">>)],
     [patient_id |-> PyStr(<<"p", "1">>)],
     [facility_id |-> "hosp_001"],
     [facility_id |-> MissingId],
     [facility_id |-> "hosp_001", service_type |-> PyStr(T_cardiology),
      date |-> PyStr(T_2024_12_15)],
     [facility_id |-> MissingId, service_type |-> PyStr(T_cardiology),
      date |-> PyStr(T_2024_12_15)]}

-----------------------------------------------------------------------------
(* The state machine: one action per call, each the whole method *)

Idle == [pc |-> "idle"]

NoCall == [op |-> "none"]

NoMemo == [set |-> FALSE]

\* GorillaLLMClient between calls: self.api_key is the key it was built
\* with, or the one a refresh_api_key put in its place.
ClientIdle(api_key) == [pc |-> "idle", api_key |-> api_key]

\* No schedule_appointment call has been started.
NoCallers == [c \in {1, 2} |-> Idle]

\* DatabaseManager(db_path) on a new file: the three tables, empty.
Init ==
    /\ db = EmptyDb
    /\ now = 0
    /\ last = NoCall
    /\ rd = Idle
    /\ cx = Idle
    /\ conn = Idle
    /\ memo = NoMemo
    /\ gc = ClientIdle("initial")
    /\ sched = NoCallers

AddFacility(facility_id, in, fault) ==
    LET r == add_facility(db, facility_id, in.fields, in.services, in.attributes,
                          fault, now)
    IN  /\ db' = r.db
        /\ last' = [op |-> "add_facility", facility_id |-> facility_id,
                    input |-> in, fault |-> fault, ret |-> r.ret,
                    existed |-> SelectFacility(db, facility_id) # {}]
        /\ UNCHANGED <<now, rd, cx, conn, memo, gc, sched>>

DeleteFacility(facility_id, fault) ==
    LET r == delete_facility(db, facility_id, fault, now)
    IN  /\ db' = r.db
        /\ last' = [op |-> "delete_facility", facility_id |-> facility_id, ret |-> r.ret]
        /\ UNCHANGED <<now, rd, cx, conn, memo, gc, sched>>

GetFacility(facility_id, fault) ==
    /\ last' = [op |-> "get_facility", facility_id |-> facility_id,
                ret |-> get_facility(db, facility_id, fault)]
    /\ UNCHANGED <<db, now, rd, cx, conn, memo, gc, sched>>

\* The appointments a facility holds: the model stops scheduling at
\* MaxAppointments per facility.
AppointmentCount(d, facility_id) ==
    LET f == get_facility(d, facility_id, FALSE)
    IN  IF f.kind = "facility" /\ T_appointments \in DOMAIN f.val.attributes
           /\ f.val.attributes[T_appointments].kind = "list"
        THEN Len(f.val.attributes[T_appointments].val) ELSE 0

\* The state a dispatch that ended as r leaves.
Dispatched(function_name, arguments, r) ==
    /\ db' = r.db
    /\ last' = [op |-> "_execute_function", function_name |-> function_name,
                arguments |-> arguments, raised |-> r.raised, exc |-> r.exc,
                handler |-> r.handler, ret |-> r.ret]
    /\ UNCHANGED <<now, rd, cx, conn, memo, gc, sched>>

ExecuteFunction(function_name, arguments, readFault, writeFault) ==
    /\ "facility_id" \in DOMAIN arguments =>
            AppointmentCount(db, arguments["facility_id"]) < MaxAppointments
    /\ Dispatched(function_name, arguments,
                  _execute_function(db, function_name, arguments, readFault,
                                    writeFault, now))

\* A second passes.
Tick ==
    /\ now < MaxClock
    /\ now' = now + 1
    /\ UNCHANGED <<db, last, rd, cx, conn, memo, gc, sched>>

\* The store on its own: add, delete, read.
Next ==
    \/ \E id \in FacilityIds, in \in AddInputs, fault \in FaultPoints :
            AddFacility(id, in, fault)
    \/ \E id \in FacilityIds \cup {MissingId}, fault \in {0, 1} : DeleteFacility(id, fault)
    \/ \E id \in FacilityIds \cup {MissingId}, fault \in BOOLEAN : GetFacility(id, fault)

Spec == Init /\ [][Next]_vars

\* add_facility calls of the dispatcher's specification.
DispatchAddInputs ==
    {AddInput(HospitalFields, <<T_xray>>,
              Attr2(T_bed_count, PyInt(250), T_emergency_room, PyBool(TRUE))),
     AddInput(ClinicFields, <<T_mri>>, Attr(T_appointments, PyStr(<<"n", "o", "n", "e", " ", "y", "e", "t">>)))}

\* The storage faults a dispatch can meet: in the read of a handler, or in
\* the write of schedule_appointment.
DispatchFaults == {<<TRUE, 0>>, <<FALSE, 1>>}

\* The dispatcher over a store that add_facility and delete_facility fill.
NextDispatch ==
    \/ \E in \in DispatchAddInputs : AddFacility("hosp_001", in, 0)
    \/ DeleteFacility("hosp_001", 0)
    \/ \E n \in FunctionNames, a \in ArgumentInputs : ExecuteFunction(n, a, FALSE, 0)
    \/ \E n \in {"get_facility_details", "schedule_appointment"},
          a \in ArgumentInputs, f \in DispatchFaults :
            ExecuteFunction(n, a, f[1], f[2])
    \/ Tick

SpecDispatch == Init /\ [][NextDispatch]_vars

-----------------------------------------------------------------------------
(* get_facility next to a writer.  get_facility runs its three SELECTs on  *)
(* a connection in Python's default transaction mode, which opens no       *)
(* transaction for a SELECT: each of them reads the database as committed  *)
(* at that moment, and another connection may commit between two of them.  *)

\* SELECT * FROM facilities WHERE id = ?, and `if not row: return None`
ReadFacilityRow(facility_id) ==
    /\ rd.pc = "idle"
    /\ IF SelectFacility(db, facility_id) = {}
       THEN /\ last' = [op |-> "get_facility", facility_id |-> facility_id,
                        ret |-> NoFacility]
            /\ rd' = rd
       ELSE /\ rd' = [pc |-> "row", facility_id |-> facility_id,
                      rows |-> SelectFacility(db, facility_id)]
            /\ last' = last
    /\ UNCHANGED <<db, now, cx, conn, memo, gc, sched>>

\* SELECT service_name FROM facility_services ...
ReadServices ==
    /\ rd.pc = "row"
    /\ rd' = [pc |-> "services", facility_id |-> rd.facility_id, rows |-> rd.rows,
              services |-> SelectServices(db, rd.facility_id)]
    /\ UNCHANGED <<db, now, last, cx, conn, memo, gc, sched>>

\* SELECT attribute_key, ... FROM facility_attributes ..., and the return
ReadAttributes ==
    /\ rd.pc = "services"
    /\ last' = [op |-> "get_facility", facility_id |-> rd.facility_id,
                ret |-> FacilityFromReads(rd.rows, rd.services,
                                          SelectAttributes(db, rd.facility_id))]
    /\ rd' = Idle
    /\ UNCHANGED <<db, now, cx, conn, memo, gc, sched>>

\* One connection reads with get_facility while others commit add_facility.
NextRead ==
    \/ \E id \in FacilityIds, in \in GoodAddInputs : AddFacility(id, in, 0)
    \/ \E id \in FacilityIds : ReadFacilityRow(id)
    \/ ReadServices
    \/ ReadAttributes

SpecRead == Init /\ [][NextRead]_vars

-----------------------------------------------------------------------------
(* The attribute codec on its own: a value is encoded as add_facility and  *)
(* update_facility_attribute encode it, then the stored pair is decoded.   *)

\* The integers of the codec's values, and the floats in tenths.
MaxCodecInt == 12

CodecTexts ==
    {<<>>, T_true, T_True, <<"1">>, <<"1", ".", "5">>, <<" ", "7", " ">>, T_null,
     <<"[", "1", "]">>, <<"{", "}">>, <<"\"">>, <<"a", "\\", "b">>, T_xray}

CodecLeaves ==
    {PyBool(TRUE), PyInt(-3), PyFloat(25), PyStr(<<"a", "\"", "b">>), PyNone}

CodecKeys == {PyStr(T_xray), PyStr(<<"1">>), PyInt(1), PyBool(TRUE), PyFloat(15)}

CodecNested ==
    {PyList(<<PyInt(1), PyList(<<PyStr(T_mri)>>)>>),
     PyDict(<< <<PyStr(T_xray), PyList(<<PyInt(1), PyNone>>)>>,
               <<PyStr(T_mri), PyDict(<< <<PyStr(T_date), PyFloat(-5)>> >>)>> >>),
     PyList(<<PyDict(<< <<PyInt(1), PyStr(T_mri)>> >>)>>),
     PyDict(<< <<PyInt(1), PyStr(T_xray)>>, <<PyStr(<<"1">>), PyStr(T_mri)>> >>),
     PyList(<<PyObject>>)}

CodecValues ==
    {PyBool(b) : b \in BOOLEAN}
        \cup {PyInt(n) : n \in -MaxCodecInt..MaxCodecInt}
        \cup {PyFloat(t) : t \in -MaxCodecInt..MaxCodecInt}
        \cup {PyStr(t) : t \in CodecTexts}
        \cup {PyList(<<>>), PyDict(<<>>)}
        \cup {PyList(<<a>>) : a \in CodecLeaves}
        \cup {PyList(<<a, b>>) : a \in CodecLeaves, b \in CodecLeaves}
        \cup {PyDict(<< <<k, a>> >>) : k \in CodecKeys, a \in CodecLeaves}
        \cup CodecNested

InitCodec ==
    /\ db = EmptyDb
    /\ now = 0
    /\ last = NoCall
    /\ rd = Idle
    /\ cx \in {[pc |-> "value", value |-> v] : v \in CodecValues}
    /\ conn = Idle
    /\ memo = NoMemo
    /\ gc = ClientIdle("initial")
    /\ sched = NoCallers

\* The write side: the tag and the text stored for the value.
Encode ==
    /\ cx.pc = "value"
    /\ cx' = [pc |-> "stored", value |-> cx.value,
              raised |-> SerializeValue(cx.value).raised,
              text |-> SerializeValue(cx.value).text,
              tag |-> _determine_attribute_type(cx.value)]
    /\ UNCHANGED <<db, now, last, rd, conn, memo, gc, sched>>

\* The read side, on what was stored.
Decode ==
    /\ cx.pc = "stored"
    /\ ~cx.raised
    /\ cx' = [pc |-> "decoded", value |-> cx.value, text |-> cx.text, tag |-> cx.tag,
              decoded |-> _parse_attribute_value(cx.text, cx.tag)]
    /\ UNCHANGED <<db, now, last, rd, conn, memo, gc, sched>>

NextCodec == Encode \/ Decode

SpecCodec == InitCodec /\ [][NextCodec]_vars

-----------------------------------------------------------------------------
(* search_facilities over a store that add_facility fills *)

T_XRAY == <<"X", "R", "A", "Y">>

\* A third facility on the meridian of the other two, rated 0.
LabFields ==
    [name |-> <<"N", "o", "r", "t", "h", " ", "L", "a", "b">>, facility_type |-> T_hospital,
     address |-> <<"9", " ", "E", "l", "m", " ", "R", "d">>, latitude |-> 450, longitude |-> -740,
     rating |-> PyFloat(0), phone |-> PyNone]

SearchIds == {"hosp_001", "clinic_001", "lab_001"}

\* What each id is stored with.
SearchAddInput(facility_id) ==
    CASE facility_id = "hosp_001" ->
            AddInput(HospitalFields, <<T_xray>>,
                     Attr2(T_bed_count, PyInt(250), T_emergency_room, PyBool(TRUE)))
      [] facility_id = "clinic_001" ->
            AddInput(ClinicFields, <<T_mri, T_xray>>,
                     Attr2(T_bed_count, PyInt(125), T_accepts_insurance,
                           PyList(<<PyStr(<<"M", "e", "d", "i", "c", "a", "r", "e">>), PyStr(<<"B", "l", "u", "e", " ", "C", "r", "o", "s", "s">>)>>)))
      [] facility_id = "lab_001" ->
            AddInput(LabFields, <<>>, Attr(T_emergency_room, PyBool(FALSE)))

Criteria(facility_type, service, min_rating, attribute_filters, latitude, longitude, max_distance_miles) ==
    [facility_type |-> facility_type, service |-> service, min_rating |-> min_rating,
     attribute_filters |-> attribute_filters, latitude |-> latitude,
     longitude |-> longitude, max_distance_miles |-> max_distance_miles]

FilterInputs ==
    {<<>>,
     Attr(T_bed_count, PyInt(25)),
     Attr2(T_bed_count, PyInt(25), T_emergency_room, PyStr(T_true)),
     Attr(T_accepts_insurance, PyList(<<PyStr(<<"M", "e", "d", "i", "c", "a", "r", "e">>), PyStr(<<"B", "l", "u", "e", " ", "C", "r", "o", "s", "s">>)>>)),
     Attr(T_logo, PyStr(T_xray))}

\* Searches without a reference coordinate.
PlainCriteria ==
    {Criteria(t, sv, r, fl, PyNone, PyNone, PyNone) :
        t \in {PyNone, PyStr(<<>>), PyStr(T_hospital)},
        sv \in {PyNone, PyStr(T_xray), PyStr(T_XRAY), PyStr(<<"r">>)},
        r \in {PyNone, PyInt(0), PyFloat(45)},
        fl \in FilterInputs}

\* Searches from a point of the facilities' meridian.
NearCriteria ==
    {Criteria(t, PyNone, PyNone, <<>>, lat, PyFloat(-740), radius) :
        t \in {PyNone, PyStr(T_hospital)},
        lat \in {PyFloat(0), PyFloat(407), PyFloat(449)},
        radius \in {PyNone, PyFloat(0), PyFloat(100)}}

SearchFacilities(c) ==
    /\ last' = [op |-> "search_facilities", criteria |-> c,
                ret |-> search_facilities_near(db, c.facility_type, c.service,
                            c.min_rating, c.attribute_filters, c.latitude,
                            c.longitude, c.max_distance_miles, FALSE)]
    /\ UNCHANGED <<db, now, rd, cx, conn, memo, gc, sched>>

NextSearch ==
    \/ \E id \in SearchIds : AddFacility(id, SearchAddInput(id), 0)
    \/ \E c \in PlainCriteria : SearchFacilities(c)
    \/ \E c \in NearCriteria : SearchFacilities(c)

SpecSearch == Init /\ [][NextSearch]_vars

-----------------------------------------------------------------------------
(* The store under add, update, delete and schedule_appointment *)

\* update_facility_attribute calls: an integer, a mapping keyed by integers,
\* and a value json.dumps rejects.
UpdateInputs ==
    {<<T_bed_count, PyInt(5)>>,
     <<T_room_codes, PyDict(<< <<PyInt(1), PyStr(<<"I", "C", "U">>)>> >>)>>,
     <<T_bed_count, PyObject>>}

ScheduleArguments(facility_id) ==
    [facility_id |-> facility_id, service_type |-> PyStr(T_cardiology),
     date |-> PyStr(T_2024_12_15)]

UpdateAttribute(facility_id, attribute_key, attribute_value, fault) ==
    LET r == update_facility_attribute(db, facility_id, attribute_key,
                                       attribute_value, fault, now)
    IN  /\ db' = r.db
        /\ last' = [op |-> "update_facility_attribute", facility_id |-> facility_id,
                    attribute_key |-> attribute_key,
                    attribute_value |-> attribute_value, fault |-> fault,
                    ret |-> r.ret]
        /\ UNCHANGED <<now, rd, cx, conn, memo, gc, sched>>

GetAllFacilityIds(fault) ==
    /\ last' = [op |-> "get_all_facility_ids", fault |-> fault,
                ret |-> get_all_facility_ids(db, fault)]
    /\ UNCHANGED <<db, now, rd, cx, conn, memo, gc, sched>>

NextUpdate ==
    \/ \E id \in FacilityIds : AddFacility(id, SearchAddInput(id), 0)
    \/ \E id \in {"hosp_001", MissingId}, kv \in UpdateInputs, fault \in {0, 2} :
            UpdateAttribute(id, kv[1], kv[2], fault)
    \/ \E id \in FacilityIds : DeleteFacility(id, 0)
    \/ ExecuteFunction("schedule_appointment", ScheduleArguments("hosp_001"), FALSE, 0)
    \/ \E fault \in BOOLEAN : GetAllFacilityIds(fault)

SpecUpdate == Init /\ [][NextUpdate]_vars

-----------------------------------------------------------------------------
(* Attribute values of every kind, added and updated *)

\* One value of each kind _determine_attribute_type tells apart.
KindValues ==
    {PyBool(FALSE), PyInt(5), PyFloat(125), PyStr(<<"2", "4", "/", "7">>),
     PyList(<<PyStr(<<"I", "C", "U">>)>>)}

NextKinds ==
    \/ \E id \in FacilityIds : AddFacility(id, SearchAddInput(id), 0)
    \/ \E key \in {T_bed_count, T_visiting_hours}, value \in KindValues :
            UpdateAttribute("hosp_001", key, value, 0)
    \/ \E id \in FacilityIds \cup {MissingId} : GetFacility(id, FALSE)

SpecKinds == Init /\ [][NextKinds]_vars

-----------------------------------------------------------------------------
(* get_connection, one step at a time *)

\* The bodies of the with-blocks of the write methods, as their statements:
\* delete_facility, update_facility_attribute, add_facility.
ConnBodies ==
    {<<[op |-> "delete_facility", facility_id |-> "hosp_001"]>>,
     <<[op |-> "replace_attribute", facility_id |-> "hosp_001",
        attribute_key |-> T_bed_count, value |-> PyInt(5)],
       [op |-> "touch_facility", facility_id |-> "hosp_001"]>>,
     <<[op |-> "replace_attribute", facility_id |-> "hosp_001",
        attribute_key |-> T_logo, value |-> PyObject],
       [op |-> "touch_facility", facility_id |-> "hosp_001"]>>,
     AddFacilityStatements("hosp_001", HospitalFields, <<T_xray>>,
                           Attr(T_bed_count, PyInt(250)))}

\* How a body can end by raising: an Exception (sqlite3.Error, TypeError)
\* or a BaseException that is no Exception (KeyboardInterrupt).
RaiseKinds == {"Exception", "BaseException"}

\* Where control goes when the body is left: past the yield to
\* conn.commit(), into `except Exception`, or straight to `finally`.
AfterBody_CommitAlways(raised) ==
    CASE raised = "no" -> "commit"
      [] raised = "Exception" -> "commit"
      [] raised = "BaseException" -> "finally"

AfterBody(raised) ==
    CASE raised = "no" -> "commit"
      [] raised = "Exception" -> "except"
      [] raised = "BaseException" -> "finally"

\* The body is left, having raised or not.
LeaveBody(raised) ==
    conn' = [conn EXCEPT !.pc = AfterBody(raised), !.raised = raised,
                         !.propagates = (raised # "no"),
                         !.events = Append(@, "body")]

\* conn = sqlite3.connect(self.db_path); the with-block is entered.
Connect(stmts) ==
    /\ conn.pc = "idle"
    /\ conn' = [pc |-> "body", stmts |-> stmts, k |-> 1, before |-> db,
                work |-> db, raised |-> "no", propagates |-> FALSE,
                events |-> <<"open">>]
    /\ UNCHANGED <<db, now, last, rd, cx, memo, gc, sched>>

\* The next statement of the body, on the connection's working copy.
BodyStatement ==
    /\ conn.pc = "body"
    /\ conn.k <= Len(conn.stmts)
    /\ LET r == ExecStatement(conn.work, conn.stmts[conn.k], now)
       IN  IF r.raised THEN LeaveBody("Exception")
           ELSE conn' = [conn EXCEPT !.work = r.work, !.k = @ + 1]
    /\ UNCHANGED <<db, now, last, rd, cx, memo, gc, sched>>

\* The storage fails at the next statement, or the process is interrupted.
BodyRaises(kind) ==
    /\ conn.pc = "body"
    /\ conn.k <= Len(conn.stmts)
    /\ LeaveBody(kind)
    /\ UNCHANGED <<db, now, last, rd, cx, memo, gc, sched>>

\* The body ran to its end (or returned).
BodyEnds ==
    /\ conn.pc = "body"
    /\ conn.k > Len(conn.stmts)
    /\ LeaveBody("no")
    /\ UNCHANGED <<db, now, last, rd, cx, memo, gc, sched>>

\* conn.commit(): the working copy becomes the database, or the commit
\* raises sqlite3.OperationalError inside the try.
Commit(ok) ==
    /\ conn.pc = "commit"
    /\ IF ok
       THEN /\ db' = conn.work
            /\ conn' = [conn EXCEPT !.pc = "finally", !.events = Append(@, "commit")]
       ELSE /\ db' = db
            /\ conn' = [conn EXCEPT !.pc = "except", !.propagates = TRUE,
                                    !.events = Append(@, "commit failed")]
    /\ UNCHANGED <<now, last, rd, cx, memo, gc, sched>>

\* except Exception: conn.rollback(); raise
Rollback ==
    /\ conn.pc = "except"
    /\ conn' = [conn EXCEPT !.pc = "finally", !.work = db, !.propagates = TRUE,
                            !.events = Append(@, "rollback")]
    /\ UNCHANGED <<db, now, last, rd, cx, memo, gc, sched>>

\* finally: conn.close(); what was not committed is gone with the connection.
Close ==
    /\ conn.pc = "finally"
    /\ conn' = [conn EXCEPT !.pc = "done", !.work = db, !.events = Append(@, "close")]
    /\ UNCHANGED <<db, now, last, rd, cx, memo, gc, sched>>

\* The caller goes on: the generator is finished.
Leave ==
    /\ conn.pc = "done"
    /\ conn' = Idle
    /\ UNCHANGED <<db, now, last, rd, cx, memo, gc, sched>>

NextConn ==
    \/ \E stmts \in ConnBodies : Connect(stmts)
    \/ BodyStatement
    \/ \E kind \in RaiseKinds : BodyRaises(kind)
    \/ BodyEnds
    \/ \E ok \in BOOLEAN : Commit(ok)
    \/ Rollback
    \/ Close
    \/ Leave

SpecConn == Init /\ [][NextConn]_vars

-----------------------------------------------------------------------------
(* The dispatcher, with one earlier dispatch kept for comparison *)

\* The (name, arguments) pairs dispatched: reads, a write, an unknown name.
StatelessCalls ==
    {<<"get_facility_details", [facility_id |-> "hosp_001"]>>,
     <<"schedule_appointment", ScheduleArguments("hosp_001")>>,
     <<"unsupported_op", <<>>>>}

\* The same call on the same store at the same time as the one kept.
SameAsKept(function_name, arguments) ==
    /\ memo.set
    /\ memo.db = db
    /\ memo.now = now
    /\ memo.function_name = function_name
    /\ memo.arguments = arguments

\* What is kept after a dispatch that ended as r: the dispatch itself if it
\* is to be remembered and none is kept yet; otherwise the one kept, with a
\* note of a different call made since (others) and of the same call made on
\* the same store at the same time after that (again).
Remembered(function_name, arguments, r, remember) ==
    IF ~memo.set
    THEN IF remember
         THEN [set |-> TRUE, db |-> db, now |-> now, function_name |-> function_name,
               arguments |-> arguments, raised |-> r.raised, exc |-> r.exc,
               ret |-> r.ret, after |-> r.db, others |-> FALSE, again |-> FALSE]
         ELSE memo
    ELSE [memo EXCEPT
            !.others = @ \/ function_name # memo.function_name
                         \/ arguments # memo.arguments,
            !.again = @ \/ (memo.others /\ SameAsKept(function_name, arguments))]

Observed(function_name, arguments, r, remember) ==
    /\ db' = r.db
    /\ last' = [op |-> "_execute_function", function_name |-> function_name,
                arguments |-> arguments, raised |-> r.raised, exc |-> r.exc,
                handler |-> r.handler, ret |-> r.ret]
    /\ memo' = Remembered(function_name, arguments, r, remember)
    /\ UNCHANGED <<now, rd, cx, conn, gc, sched>>

\* self._execute_function(function_name, arguments), the storage not failing.
ExecuteFunctionObserved(function_name, arguments, remember) ==
    /\ "facility_id" \in DOMAIN arguments =>
            AppointmentCount(db, arguments["facility_id"]) < MaxAppointments
    /\ remember => ~memo.set
    /\ Observed(function_name, arguments,
                _execute_function(db, function_name, arguments, FALSE, 0, now),
                remember)

NextStateless ==
    \/ AddFacility("hosp_001", SearchAddInput("hosp_001"), 0)
    \/ DeleteFacility("hosp_001", 0)
    \/ \E call \in StatelessCalls, remember \in BOOLEAN :
            ExecuteFunctionObserved(call[1], call[2], remember)
    \/ Tick

SpecStateless == Init /\ [][NextStateless]_vars

-----------------------------------------------------------------------------
(* process_natural_language_query *)

\* What generate_function_call hands back: None, an empty dict, or a dict
\* with a name and arguments; the arguments are a mapping, or (undecodable)
\* a string json.loads rejects.
NoFunctionCall == [kind |-> "none"]

EmptyFunctionCall == [kind |-> "empty"]

FunctionCall(name, arguments, undecodable) ==
    [kind |-> "call", name |-> name, arguments |-> arguments,
     undecodable |-> undecodable]

\* function_call.get("arguments") or function_call.get("args", {}), put
\* through json.loads when a string ({} when that fails).
ArgumentsOf(function_call) ==
    IF function_call.undecodable THEN <<>> ELSE function_call.arguments

\* The dict returned after the dispatch ended as r (an exception of the
\* handler passes through).
QueryDispatched(function_call, r) ==
    [raised |-> r.raised, exc |-> r.exc, db |-> r.db, handler |-> r.handler,
     dispatched |-> TRUE,
     ret |-> [success |-> TRUE, function_name |-> function_call.name,
              arguments |-> ArgumentsOf(function_call), result |-> r.ret]]

\* The dict returned when no function call was generated.
QueryFailed(d) ==
    [raised |-> FALSE, exc |-> "", db |-> d, handler |-> "", dispatched |-> FALSE,
     ret |-> [success |-> FALSE,
              error |-> "Failed to generate function call from Gorilla LLM"]]

process_natural_language_query_Unchecked(d, function_call, readFault, writeFault, clock) ==
    IF function_call.kind # "call"
    THEN QueryDispatched(FunctionCall("", <<>>, FALSE),
            _execute_function(d, "", <<>>, readFault, writeFault, clock))
    ELSE QueryDispatched(function_call,
            _execute_function(d, function_call.name, ArgumentsOf(function_call),
                              readFault, writeFault, clock))

process_natural_language_query(d, function_call, readFault, writeFault, clock) ==
    IF function_call.kind # "call"
    THEN QueryFailed(d)
    ELSE QueryDispatched(function_call,
            _execute_function(d, function_call.name, ArgumentsOf(function_call),
                              readFault, writeFault, clock))

\* What the classifier client hands back in the model.
FunctionCallInputs ==
    {NoFunctionCall, EmptyFunctionCall,
     FunctionCall("get_facility_details", [facility_id |-> "hosp_001"], FALSE),
     FunctionCall("get_facility_details", [facility_id |-> "hosp_001"], TRUE),
     FunctionCall("find_healthcare_facilities", [location |-> PyStr(T_here)], FALSE),
     FunctionCall("schedule_appointment", ScheduleArguments("hosp_001"), FALSE),
     FunctionCall("schedule_appointment", ScheduleArguments("clinic_001"), FALSE),
     FunctionCall("unsupported_op", <<>>, FALSE)}

Queried(function_call, r) ==
    /\ db' = r.db
    /\ last' = [op |-> "process_natural_language_query",
                function_call |-> function_call, raised |-> r.raised,
                exc |-> r.exc, handler |-> r.handler,
                dispatched |-> r.dispatched, ret |-> r.ret]
    /\ UNCHANGED <<now, rd, cx, conn, memo, gc, sched>>

ProcessQuery(function_call, readFault, writeFault) ==
    /\ (function_call.kind = "call" /\ "facility_id" \in DOMAIN function_call.arguments) =>
            AppointmentCount(db, function_call.arguments["facility_id"]) < MaxAppointments
    /\ Queried(function_call,
               process_natural_language_query(db, function_call, readFault,
                                              writeFault, now))

NextQuery ==
    \/ \E id \in FacilityIds : AddFacility(id, SearchAddInput(id), 0)
    \/ \E call \in FunctionCallInputs, faults \in DispatchFaults \cup {<<FALSE, 0>>} :
            ProcessQuery(call, faults[1], faults[2])

SpecQuery == Init /\ [][NextQuery]_vars

-----------------------------------------------------------------------------
(* _calculate_distance in floating point *)

\* The rounding error of the evaluation of the term a, in units in the last
\* place of 1.0; which coordinates give which error is not modelled.
MaxUlps == 2

\* Coordinates on the quarter turns, in degrees: there the exact values of
\* sin^2 of the half angle are 0, 1/2 and 1 and those of cos are 0 and 1.
QuarterLatitudes == {-90, 0, 90}

QuarterLongitudes == {-180, -90, 0, 90, 180}

\* 2 * sin(radians(degrees) / 2) ** 2, exactly.
TwiceSinSquaredHalf(degrees) ==
    LET quarter == (Abs(degrees) \div 90) % 4
    IN  CASE quarter = 0 -> 0 [] quarter = 1 -> 1 [] quarter = 2 -> 2 [] quarter = 3 -> 1

\* cos(radians(lat)), exactly.
CosLatitude(lat) == IF lat = 0 THEN 1 ELSE 0

\* Twice the term a = sin^2(dlat/2) + cos(lat1) cos(lat2) sin^2(dlon/2),
\* exactly: 0 for one point, 2 for antipodal points.
TwiceA(lat1, lon1, lat2, lon2) ==
    TwiceSinSquaredHalf(lat2 - lat1)
        + CosLatitude(lat1) * CosLatitude(lat2) * TwiceSinSquaredHalf(lon2 - lon1)

\* R * 2 * asin(sqrt(a)) in miles, R = 3959: asin(0) = 0, asin(sqrt(1/2)) =
\* pi/4, asin(1) = pi/2.
MilesOfTwiceA(twiceA) ==
    CASE twiceA = 0 -> 0 [] twiceA = 1 -> 6219 [] twiceA = 2 -> 12438

\* The method as Python evaluates it: a is the exact term off by err units
\* in the last place (0 when both points are the same: every step is exact
\* then).  No clamp precedes math.sqrt and math.asin: sqrt(1 + 1 ulp) rounds
\* to 1.0, sqrt(1 + 2 ulp) is above 1.0 and math.asin raises ValueError.
HaversineDistance(lat1, lon1, lat2, lon2, err) ==
    LET twiceA == TwiceA(lat1, lon1, lat2, lon2)
        samePoint == lat1 = lat2 /\ lon1 = lon2
    IN  IF ~samePoint /\ twiceA = 2 /\ err >= 2
        THEN [raised |-> TRUE, exc |-> "ValueError", miles |-> 0]
        ELSE [raised |-> FALSE, exc |-> "", miles |-> MilesOfTwiceA(twiceA)]

CalculateDistance(lat1, lon1, lat2, lon2, err) ==
    /\ last' = [op |-> "_calculate_distance", lat1 |-> lat1, lon1 |-> lon1,
                lat2 |-> lat2, lon2 |-> lon2, err |-> err,
                ret |-> HaversineDistance(lat1, lon1, lat2, lon2, err),
                back |-> HaversineDistance(lat2, lon2, lat1, lon1, err)]
    /\ UNCHANGED <<db, now, rd, cx, conn, memo, gc, sched>>

NextDistance ==
    \E lat1, lat2 \in QuarterLatitudes, lon1, lon2 \in QuarterLongitudes, err \in (0 - MaxUlps)..MaxUlps :
        CalculateDistance(lat1, lon1, lat2, lon2, err)

SpecDistance == Init /\ [][NextDistance]_vars

-----------------------------------------------------------------------------
(* generate_function_call, one request at a time *)

\* The bodies of a 200 answer: a dict with "function_call", a dict without
\* it, {}, JSON that is no object (a list), and text that is no JSON, for
\* which response.json() raises a RequestException (requests 2.27 and
\* later) or a plain ValueError (earlier).
AnswerBodies ==
    {"function_call", "dict", "empty dict", "list", "not json", "not json (ValueError)"}

\* What one session.post can come to: an answer with a status (with a body
\* when 200), or a requests.exceptions.RequestException (timeout, refused).
Answers ==
    {[status |-> 200, body |-> b] : b \in AnswerBodies}
        \cup {[status |-> st, body |-> ""] : st \in {401, 403, 404, 500, 503}}
        \cup {[status |-> 0, body |-> "RequestException"]}

UserPrompts == {"find a hospital", "book cardiology", ""}

ClientReturned(value) == [raised |-> FALSE, exc |-> "", value |-> value]

ClientRaised(exc) == [raised |-> TRUE, exc |-> exc, value |-> ""]

\* result = response.json(); return result.get("function_call") or result,
\* under `except requests.exceptions.RequestException`.
On200(body) ==
    CASE body = "function_call" -> ClientReturned("function_call")
      [] body = "dict" -> ClientReturned("dict")
      [] body = "empty dict" -> ClientReturned("empty dict")
      [] body = "list" -> ClientRaised("AttributeError")
      [] body = "not json" -> ClientReturned("None")
      [] body = "not json (ValueError)" -> ClientRaised("ValueError")

\* The call is over with outcome.
ClientEnds(outcome) == gc' = [gc EXCEPT !.pc = "returned", !.outcome = outcome]

\* self.session.post(...): the first request.
PostRequest(user_prompt) ==
    /\ gc.pc = "idle"
    /\ gc' = [pc |-> "posted", api_key |-> gc.api_key, prompt |-> user_prompt,
              requests |-> 1,
              answers |-> <<>>, refreshed |-> FALSE, outcome |-> ClientReturned("")]
    /\ UNCHANGED <<db, now, last, rd, cx, conn, memo, sched>>

\* The first request is answered (or fails).
FirstAnswer(answer) ==
    /\ gc.pc = "posted"
    /\ gc.requests = 1
    /\ LET seen == [gc EXCEPT !.answers = Append(@, answer)]
       IN  CASE answer.status = 0 ->
                    gc' = [seen EXCEPT !.pc = "returned", !.outcome = ClientReturned("None")]
             [] answer.status = 200 ->
                    gc' = [seen EXCEPT !.pc = "returned", !.outcome = On200(answer.body)]
             [] answer.status = 401 -> gc' = [seen EXCEPT !.pc = "refresh"]
             [] OTHER ->
                    gc' = [seen EXCEPT !.pc = "returned", !.outcome = ClientReturned("None")]
    /\ UNCHANGED <<db, now, last, rd, cx, conn, memo, sched>>

\* if self.refresh_api_key(): post again; else return None.
RefreshApiKey(ok) ==
    /\ gc.pc = "refresh"
    /\ IF ok
       THEN gc' = [gc EXCEPT !.pc = "posted", !.api_key = "refreshed",
                             !.refreshed = TRUE, !.requests = @ + 1]
       ELSE ClientEnds(ClientReturned("None"))
    /\ UNCHANGED <<db, now, last, rd, cx, conn, memo, sched>>

\* The retry is answered (or fails): 200 returns, anything else is None.
RetryAnswer(answer) ==
    /\ gc.pc = "posted"
    /\ gc.requests = 2
    /\ LET seen == [gc EXCEPT !.answers = Append(@, answer)]
       IN  IF answer.status = 200
           THEN gc' = [seen EXCEPT !.pc = "returned", !.outcome = On200(answer.body)]
           ELSE gc' = [seen EXCEPT !.pc = "returned", !.outcome = ClientReturned("None")]
    /\ UNCHANGED <<db, now, last, rd, cx, conn, memo, sched>>

\* The caller goes on.
ClientDone ==
    /\ gc.pc = "returned"
    /\ gc' = ClientIdle(gc.api_key)
    /\ UNCHANGED <<db, now, last, rd, cx, conn, memo, sched>>

NextClient ==
    \/ \E user_prompt \in UserPrompts : PostRequest(user_prompt)
    \/ \E answer \in Answers : FirstAnswer(answer)
    \/ \E ok \in BOOLEAN : RefreshApiKey(ok)
    \/ \E answer \in Answers : RetryAnswer(answer)
    \/ ClientDone

SpecClient == Init /\ [][NextClient]_vars

-----------------------------------------------------------------------------
(* Two schedule_appointment calls at once: each reads the facility with   *)
(* get_facility on one connection and writes the attribute back with      *)
(* update_facility_attribute on another.                                  *)

Callers == {1, 2}

\* The patient a caller books for.
PatientOf(c) == PyStr(<<"p", Digits[c + 1]>>)

\* facility = self.db_manager.get_facility(facility_id)
ScheduleRead(c) ==
    /\ sched[c].pc = "idle"
    /\ AppointmentCount(db, "hosp_001") < MaxAppointments
    /\ sched' = [sched EXCEPT ![c] = [pc |-> "read",
                                      facility |-> get_facility(db, "hosp_001", FALSE)]]
    /\ UNCHANGED <<db, now, last, rd, cx, conn, memo, gc>>

\* What a caller holds when its call ended as r.
ScheduleEnded(c, r) ==
    /\ db' = r.db
    /\ sched' = [sched EXCEPT ![c] = [pc |-> "done", raised |-> r.raised,
                                      ret |-> r.ret]]
    /\ UNCHANGED <<now, last, rd, cx, conn, memo, gc>>

\* The rest of the call: the record is appended to the list that was read
\* and update_facility_attribute writes the list to the store as it is now.
ScheduleWrite(c) ==
    /\ sched[c].pc = "read"
    /\ ScheduleEnded(c, ScheduleOn(db, sched[c].facility, "hosp_001",
                                   PyStr(T_cardiology), PyStr(T_2024_12_15),
                                   PatientOf(c), 0, now))

\* The caller makes its next call.
ScheduleAgain(c) ==
    /\ sched[c].pc = "done"
    /\ sched' = [sched EXCEPT ![c] = Idle]
    /\ UNCHANGED <<db, now, last, rd, cx, conn, memo, gc>>

\* The facility is stored once, before any call.
AddHospital ==
    /\ SelectFacility(db, "hosp_001") = {}
    /\ AddFacility("hosp_001", SearchAddInput("hosp_001"), 0)

NextConcurrent ==
    \/ AddHospital
    \/ \E c \in Callers : ScheduleRead(c)
    \/ \E c \in Callers : ScheduleWrite(c)
    \/ \E c \in Callers : ScheduleAgain(c)
    \/ Tick

SpecConcurrent == Init /\ [][NextConcurrent]_vars

-----------------------------------------------------------------------------
(* The two finders, from several places and radii *)

T_elsewhere == <<"0", ".", "0", ",", "-", "7", "4", ".", "0">>

Locations == {PyStr(T_here), PyStr(T_elsewhere), PyStr(<<>>)}

\* Radii in tenths of a mile.
Radii == {PyFloat(100), PyInt(0), PyFloat(5000)}

\* Arguments of find_healthcare_facilities and search_facilities_by_service:
\* the radius given or left to its default.
FindArguments ==
    {[location |-> l, radius |-> r] : l \in Locations, r \in Radii}
    \cup {[location |-> l, facility_type |-> PyStr(T_hospital)] : l \in Locations}
    \cup {[location |-> l, service |-> PyStr(T_xray), radius |-> r] :
            l \in Locations, r \in Radii}
    \cup {[location |-> l, service |-> PyStr(T_mri)] : l \in Locations}

NextFind ==
    \/ \E id \in SearchIds : AddFacility(id, SearchAddInput(id), 0)
    \/ \E id \in SearchIds : DeleteFacility(id, 0)
    \/ \E n \in {"find_healthcare_facilities", "search_facilities_by_service"},
          a \in FindArguments : ExecuteFunction(n, a, FALSE, 0)

SpecFind == Init /\ [][NextFind]_vars

-----------------------------------------------------------------------------
(* HealthcareMapAI.__init__ and its sample data *)

\* The parameters of DatabaseManager.add_facility, and those without default.
AddFacilityParams ==
    {"facility_id", "name", "facility_type", "address", "latitude", "longitude",
     "services", "rating", "phone", "attributes"}

AddFacilityRequired ==
    {"facility_id", "name", "facility_type", "address", "latitude", "longitude",
     "services"}

\* The keys of each dict of sample_facilities once "attributes" is popped.
SampleKeys ==
    {"id", "name", "facility_type", "address", "latitude", "longitude",
     "services", "rating", "phone"}

PharmacyFields == [ClinicFields EXCEPT !.facility_type = <<"p", "h", "a", "r", "m", "a", "c", "y">>]

UrgentCareFields == [HospitalFields EXCEPT !.facility_type = <<"u", "r", "g", "e", "n", "t", "_", "c", "a", "r", "e">>]

\* The four sample facilities: the keys of the dict, the value of its "id",
\* and the rest of it with one service and one attribute kept of each.
sample_facilities ==
    <<[keys |-> SampleKeys, id |-> "hosp_001", in |-> SearchAddInput("hosp_001")],
      [keys |-> SampleKeys, id |-> "clinic_001", in |-> SearchAddInput("clinic_001")],
      [keys |-> SampleKeys, id |-> "pharm_001",
       in |-> AddInput(PharmacyFields, <<T_mri>>, Attr(T_emergency_room, PyBool(FALSE)))],
      [keys |-> SampleKeys, id |-> "urgent_001",
       in |-> AddInput(UrgentCareFields, <<T_xray>>, Attr(T_emergency_room, PyBool(TRUE)))]>>

SampleIds == {sample_facilities[i].id : i \in DOMAIN sample_facilities}

\* for facility_data in sample_facilities:
\*     self.db_manager.add_facility(attributes=attributes, **facility_data)
\* from the i-th on.  The keywords of the call are the keys of the dict and
\* "attributes"; Python raises TypeError before the body runs when a keyword
\* is no parameter or a parameter without default is missing.
RECURSIVE AddSamples(_, _, _)
AddSamples(d, i, clock) ==
    IF i > Len(sample_facilities) THEN [raised |-> FALSE, exc |-> "", db |-> d]
    ELSE LET sample == sample_facilities[i]
             keywords == sample.keys \cup {"attributes"}
         IN  IF ~(AddFacilityRequired \subseteq keywords
                    /\ keywords \subseteq AddFacilityParams)
             THEN [raised |-> TRUE, exc |-> "TypeError", db |-> d]
             ELSE AddSamples(add_facility(d, sample.id, sample.in.fields,
                                          sample.in.services, sample.in.attributes,
                                          0, clock).db,
                             i + 1, clock)

\* existing_ids = get_all_facility_ids(); if existing_ids: return
_initialize_sample_data(d, fault, clock) ==
    IF get_all_facility_ids(d, fault) # <<>>
    THEN [raised |-> FALSE, exc |-> "", db |-> d]
    ELSE AddSamples(d, 1, clock)

\* HealthcareMapAI(db_path = the store's file): the tables exist already, and
\* initialize_sample_data is left at True or given as False.
Constructed(initialize_sample_data, fault, r) ==
    /\ db' = r.db
    /\ last' = [op |-> "__init__", initialize_sample_data |-> initialize_sample_data,
                fault |-> fault, raised |-> r.raised, exc |-> r.exc]
    /\ UNCHANGED <<now, rd, cx, conn, memo, gc, sched>>

Construct(initialize_sample_data, fault) ==
    Constructed(initialize_sample_data, fault,
                IF initialize_sample_data
                THEN _initialize_sample_data(db, fault, now)
                ELSE [raised |-> FALSE, exc |-> "", db |-> db])

NextConstruct ==
    \/ \E id \in SearchIds : AddFacility(id, SearchAddInput(id), 0)
    \/ \E id \in SearchIds : DeleteFacility(id, 0)
    \/ \E id \in SearchIds \cup {MissingId} : GetFacility(id, FALSE)
    \/ \E initialize_sample_data \in BOOLEAN, fault \in BOOLEAN :
            Construct(initialize_sample_data, fault)

SpecConstruct == Init /\ [][NextConstruct]_vars

-----------------------------------------------------------------------------
(* Vocabulary of the claims *)

\* The rows of one facility id in the three relations.
RowsOf(d, facility_id) ==
    [facilities |-> {r \in d.facilities : r.id = facility_id},
     facility_services |-> {r \in d.facility_services : r.facility_id = facility_id},
     facility_attributes |-> {r \in d.facility_attributes : r.facility_id = facility_id}]

NoRows == [facilities |-> {}, facility_services |-> {}, facility_attributes |-> {}]

AllIds == FacilityIds \cup {MissingId}

Range(seq) == {seq[i] : i \in 1..Len(seq)}

\* Whether a step of add_facility(in) fails: a service named twice, a value
\* json.dumps rejects, or the storage failing at one of its statements.
AddStepFails(in, fault) ==
    \/ Cardinality(Range(in.services)) < Len(in.services)
    \/ \E k \in DOMAIN in.attributes : ~Serializable(in.attributes[k])
    \/ /\ fault >= 1
       /\ fault <= 3 + Len(in.services) + Cardinality(DOMAIN in.attributes)

\* C1: add_facility is all-or-nothing: a call a step of which fails returns
\* False, and a call that returns False leaves the rows of every facility,
\* the target's included, exactly as they were before the call.
C1_AddFacilityAllOrNothing ==
    [][last'.op = "add_facility" =>
        /\ AddStepFails(last'.input, last'.fault) => last'.ret = FALSE
        /\ last'.ret = FALSE => db' = db]_vars

\* C1 witness: a failed add_facility on a facility that is stored with
\* services and attributes.
C1_Witness ==
    /\ last.op = "add_facility"
    /\ last.ret = FALSE
    /\ RowsOf(db, last.facility_id).facilities # {}
    /\ RowsOf(db, last.facility_id).facility_services # {}
    /\ RowsOf(db, last.facility_id).facility_attributes # {}

\* A JSON-native value: None, a boolean, a number, a string, a list of such
\* values, or a mapping whose keys are distinct strings and whose values are
\* such values.
RECURSIVE JsonNative(_)
JsonNative(v) ==
    CASE v.kind \in {"none", "bool", "int", "float", "str"} -> TRUE
      [] v.kind = "list" -> \A i \in 1..Len(v.val) : JsonNative(v.val[i])
      [] v.kind = "dict" ->
            /\ \A i \in 1..Len(v.val) :
                    v.val[i][1].kind = "str" /\ JsonNative(v.val[i][2])
            /\ \A i, j \in 1..Len(v.val) : v.val[i][1] = v.val[j][1] => i = j
      [] OTHER -> FALSE

\* The values the codec is faithful to.
CodecFaithful(v) ==
    \/ v.kind \in {"bool", "int", "float", "str"}
    \/ v.kind \in {"list", "dict"} /\ JsonNative(v)

\* What reading back a written value gives: the stored pair, decoded.
Decoded(v) ==
    _parse_attribute_value(SerializeValue(v).text, _determine_attribute_type(v)).val

\* How C2 compares a value read with the value written: as equal, or as
\* what the codec reads back (the value itself where the codec is faithful).
SameValue(read, written, exact) ==
    IF exact THEN read = written
    ELSE /\ read = Decoded(written)
         /\ CodecFaithful(written) => read = written

\* What C2 says of get_facility(id) after add_facility(id, in) returned True
\* and left database d2 from d1.
ReAddReplaced(d1, d2, id, in, exact) ==
    LET g == get_facility(d2, id, FALSE)
    IN  /\ g.kind = "facility"
        /\ Range(g.val.services) = Range(in.services)
        /\ DOMAIN g.val.attributes = DOMAIN in.attributes
        /\ \A k \in DOMAIN in.attributes :
                SameValue(g.val.attributes[k], in.attributes[k], exact)
        /\ \A other \in AllIds \ {id} : RowsOf(d2, other) = RowsOf(d1, other)

\* C2 as claimed: after a successful add_facility(id, S2, A2) on a store that
\* holds id, get_facility(id) has exactly the services S2 and exactly the
\* attributes A2 with their values, and the other facilities are unchanged.
C2_Original ==
    [][(last'.op = "add_facility" /\ last'.ret = TRUE /\ last'.existed) =>
        ReAddReplaced(db, db', last'.facility_id, last'.input, TRUE)]_vars

\* C2 amended: after a successful re-add, get_facility(id) has exactly the
\* services S2 and exactly the attribute keys of A2, each with the value its
\* stored encoding decodes to, which is the written value whenever that is a
\* boolean, a number, a string or a JSON-native list or mapping; nothing of
\* the previous write survives and the other facilities are unchanged.
C2_ReAddReplaces ==
    [][(last'.op = "add_facility" /\ last'.ret = TRUE /\ last'.existed) =>
        ReAddReplaced(db, db', last'.facility_id, last'.input, FALSE)]_vars

\* C2 witness: a successful re-add of a stored facility, now with services
\* and attributes, beside another stored facility.
C2_Witness ==
    /\ last.op = "add_facility"
    /\ last.ret = TRUE
    /\ last.existed
    /\ RowsOf(db, last.facility_id).facility_services # {}
    /\ RowsOf(db, last.facility_id).facility_attributes # {}
    /\ \E other \in FacilityIds \ {last.facility_id} : RowsOf(db, other) # NoRows

\* C3: after delete_facility(id) returns True, get_facility(id) is not found
\* and no service or attribute row of id is left; no service or attribute
\* row is ever without its facility.
C3_DeleteCascades ==
    /\ (last.op = "delete_facility" /\ last.ret = TRUE) =>
            /\ get_facility(db, last.facility_id, FALSE) = NoFacility
            /\ RowsOf(db, last.facility_id) = NoRows
    /\ \A r \in db.facility_services \cup db.facility_attributes :
            \E f \in db.facilities : f.id = r.facility_id

-----------------------------------------------------------------------------
(* The dispatcher *)

\* The last call was a dispatch of function_name.
DispatchOf(call, function_name) ==
    call.op = "_execute_function" /\ call.function_name = function_name

\* C6 as the specification states it: whatever the function name and the
\* argument mapping, _execute_function returns a value and no exception
\* leaves it.
C6_NoExceptionEscapes ==
    last.op = "_execute_function" => ~last.raised

RegisteredFunctions ==
    {"find_healthcare_facilities", "get_facility_details",
     "search_facilities_by_service", "get_patient_health_data",
     "schedule_appointment"}

\* C7: a dispatch of a name that is none of the five registered ones returns
\* exactly {"error": "Unknown function: <name>"}, calls no handler and
\* leaves the store as it was; a dispatch of a registered name goes to the
\* handler of that name.
C7_UnknownFunctionRouting ==
    [][last'.op = "_execute_function" =>
        IF last'.function_name \in RegisteredFunctions
        THEN last'.handler = last'.function_name
        ELSE /\ ~last'.raised
             /\ last'.handler = ""
             /\ last'.ret = [kind |-> "error",
                             val |-> "Unknown function: " \o last'.function_name]
             /\ db' = db]_vars

\* An unknown name was dispatched with arguments over a store that holds a
\* facility.
C7_Witness ==
    /\ DispatchOf(last, "unsupported_op")
    /\ last.arguments # <<>>
    /\ db.facilities # {}
    /\ db.facility_attributes # {}

\* {"error": "Facility <id> not found"}
NotFound(facility_id) ==
    [kind |-> "error", val |-> "Facility " \o facility_id \o " not found"]

\* C8: a dispatch of get_facility_details with a facility_id that has no row
\* in facilities returns the not-found payload, raises nothing and leaves
\* the store as it was.
C8_DetailsOfAbsentFacility ==
    [][(/\ DispatchOf(last', "get_facility_details")
        /\ now' = now
        /\ DOMAIN last'.arguments = {"facility_id"}
        /\ SelectFacility(db, last'.arguments.facility_id) = {})
       => /\ ~last'.raised
          /\ last'.ret = NotFound(last'.arguments.facility_id)
          /\ db' = db]_vars

\* get_facility_details was dispatched with the id of a deleted facility
\* whose services and attributes are still stored.
C8_Witness ==
    /\ DispatchOf(last, "get_facility_details")
    /\ DOMAIN last.arguments = {"facility_id"}
    /\ SelectFacility(db, last.arguments.facility_id) = {}
    /\ SelectAttributes(db, last.arguments.facility_id) # {}
    /\ last.ret.kind = "error"

\* C9 as the specification states it: when schedule_appointment returned
\* success with appointment id A, get_facility on that facility (nothing
\* written since) has an appointments attribute holding a record with A,
\* the service_type and the date of the call.
C9_ScheduledAppointmentStored ==
    (DispatchOf(last, "schedule_appointment") /\ ~last.raised
        /\ last.ret.kind = "scheduled")
    => LET f == get_facility(db, last.ret.val.facility_id, FALSE)
       IN  /\ f.kind = "facility"
           /\ T_appointments \in DOMAIN f.val.attributes
           /\ f.val.attributes[T_appointments].kind = "list"
           /\ \E i \in 1..Len(f.val.attributes[T_appointments].val) :
                LET record == f.val.attributes[T_appointments].val[i]
                IN  /\ record.kind = "dict"
                    /\ DictGet(record, PyStr(T_appointment_id), PyNone)
                            = PyStr(last.ret.val.appointment_id)
                    /\ DictGet(record, PyStr(T_service_type), PyNone)
                            = last.ret.val.service
                    /\ DictGet(record, PyStr(T_date), PyNone) = last.ret.val.date

\* C10: schedule_appointment with a facility_id that has no row in
\* facilities returns the not-found payload, raises nothing and writes
\* nothing.
C10_ScheduleOnAbsentFacility ==
    [][(/\ DispatchOf(last', "schedule_appointment")
        /\ now' = now
        /\ Required("schedule_appointment") \subseteq DOMAIN last'.arguments
        /\ DOMAIN last'.arguments \subseteq Params("schedule_appointment")
        /\ SelectFacility(db, last'.arguments.facility_id) = {})
       => /\ ~last'.raised
          /\ last'.ret = NotFound(last'.arguments.facility_id)
          /\ db' = db]_vars

\* schedule_appointment was dispatched for an id without a row in
\* facilities while another appointment is stored.
C10_Witness ==
    /\ DispatchOf(last, "schedule_appointment")
    /\ "facility_id" \in DOMAIN last.arguments
    /\ "date" \in DOMAIN last.arguments
    /\ SelectFacility(db, last.arguments.facility_id) = {}
    /\ last.ret.kind = "error"
    /\ \E r \in db.facility_attributes : r.attribute_key = T_appointments

-----------------------------------------------------------------------------
(* get_facility next to a writer; the codec *)

\* C4 as the specification states it: whatever add_facility commits while
\* get_facility runs its three SELECTs, the services and the attributes
\* get_facility returns are those of one add_facility call, never the
\* services of one call with the attributes of another.
C4_NoPartialRead ==
    (last.op = "get_facility" /\ last.ret.kind = "facility")
    => \E in \in GoodAddInputs :
            /\ Range(last.ret.val.services) = Range(in.services)
            /\ last.ret.val.attributes = in.attributes

\* The kinds of value C5 names.
ClaimedKinds == {"bool", "int", "float", "str", "list", "dict"}

\* C5 as the specification states it: a boolean, an integer, a float, a
\* string, or a nested mapping or sequence, encoded and then decoded, is
\* the value again.
C5_Original ==
    (cx.pc = "decoded" /\ cx.value.kind \in ClaimedKinds)
    => ~cx.decoded.raised /\ cx.decoded.val = cx.value

\* C5: a boolean, an integer, a float, a string, or a list or dict built
\* from None, booleans, numbers, strings, lists and dicts whose keys are
\* distinct strings, encoded and then decoded, is the value again.
C5_CodecRoundTrip ==
    (cx.pc = "decoded" /\ CodecFaithful(cx.value))
    => ~cx.decoded.raised /\ cx.decoded.val = cx.value

\* A dict holding a list and a dict was stored as json and decoded.
C5_Witness ==
    /\ cx.pc = "decoded"
    /\ cx.tag = "json"
    /\ cx.value.kind = "dict"
    /\ \E i, j \in 1..Len(cx.value.val) :
            cx.value.val[i][2].kind = "list" /\ cx.value.val[j][2].kind = "dict"
    /\ cx.decoded.val = cx.value

-----------------------------------------------------------------------------
(* search_facilities *)

\* The ids of the facilities a search returned.
FoundIds(ret) ==
    IF ret.ranked THEN {ret.list[i].facility.id : i \in 1..Len(ret.list)}
    ELSE {f.id : f \in ret.found}

StoredIds(d) == {r.id : r \in d.facilities}

\* What get_facility returns for a stored id.
Stored(d, id) == get_facility(d, id, FALSE).val

\* The ids search_facilities finds for criteria c.
SearchIds_(d, c) ==
    FoundIds(search_facilities_near(d, c.facility_type, c.service, c.min_rating,
                c.attribute_filters, c.latitude, c.longitude,
                c.max_distance_miles, FALSE))

NoCriteria == Criteria(PyNone, PyNone, PyNone, <<>>, PyNone, PyNone, PyNone)

\* Whether a text criterion counts as supplied: whenever it is not None, or
\* only when it is not None and not empty.
SuppliedText(v, evenEmpty) == IF evenEmpty THEN v # PyNone ELSE Truthy(v)

\* The rating is present and at least r.
RatedAtLeast(f, r) == f.rating # PyNone /\ Tenths(f.rating) >= Tenths(r)

\* The stored facilities that satisfy each supplied criterion of c on its
\* own: the type by equality, the rating by RatedAtLeast, the service and
\* each attribute filter by the search for that criterion alone.
SatisfyingEach(d, c, evenEmpty) ==
    {id \in StoredIds(d) :
        /\ SuppliedText(c.facility_type, evenEmpty) =>
                Stored(d, id).facility_type = c.facility_type.val
        /\ SuppliedText(c.service, evenEmpty) =>
                id \in SearchIds_(d, [NoCriteria EXCEPT !.service = c.service])
        /\ c.min_rating # PyNone => RatedAtLeast(Stored(d, id), c.min_rating)
        /\ \A k \in DOMAIN c.attribute_filters :
                id \in SearchIds_(d, [NoCriteria EXCEPT !.attribute_filters =
                                        Attr(k, c.attribute_filters[k])])}

\* The last call was a search without a reference coordinate.
PlainSearch == last.op = "search_facilities" /\ last.criteria.latitude = PyNone

\* C11 as the specification states it: a search returns exactly the stored
\* facilities that satisfy every criterion supplied, a criterion being
\* supplied when it is given at all; without criteria, every facility.
C11_Original ==
    PlainSearch =>
        last.ret.found = {Stored(db, id) : id \in SatisfyingEach(db, last.criteria, TRUE)}

\* C11: a search returns exactly the stored facilities that satisfy every
\* criterion supplied (type, service, minimum rating, each attribute filter
\* on its own), where an empty facility_type or service counts as not
\* supplied; without criteria, every stored facility.
C11_ConjunctiveSearch ==
    PlainSearch =>
        last.ret.found = {Stored(db, id) : id \in SatisfyingEach(db, last.criteria, FALSE)}

\* A search by type with two attribute filters found a facility and left
\* out another that matches one of the two filters.
C11_Witness ==
    /\ PlainSearch
    /\ Truthy(last.criteria.facility_type)
    /\ Cardinality(DOMAIN last.criteria.attribute_filters) = 2
    /\ last.ret.found # {}
    /\ \E id \in StoredIds(db) \ FoundIds(last.ret) :
            \E k \in DOMAIN last.criteria.attribute_filters :
                id \in SearchIds_(db, [NoCriteria EXCEPT !.attribute_filters =
                                        Attr(k, last.criteria.attribute_filters[k])])

\* C12: a search with a minimum rating r returns exactly the facilities of
\* the search without it whose rating is present and at least r.
C12_RatingNarrows ==
    (last.op = "search_facilities" /\ last.criteria.min_rating # PyNone) =>
        FoundIds(last.ret)
            = {id \in SearchIds_(db, [last.criteria EXCEPT !.min_rating = PyNone]) :
                    RatedAtLeast(Stored(db, id), last.criteria.min_rating)}

\* A search with minimum rating 0 found the facility rated 0 and left out an
\* unrated facility that the search without a minimum finds.
C12_Witness ==
    /\ last.op = "search_facilities"
    /\ last.criteria.min_rating = PyInt(0)
    /\ \E id \in FoundIds(last.ret) : Stored(db, id).rating = PyFloat(0)
    /\ \E id \in SearchIds_(db, [last.criteria EXCEPT !.min_rating = PyNone]) :
            Stored(db, id).rating = PyNone /\ id \notin FoundIds(last.ret)

\* C13 as the specification states it: when a reference coordinate is
\* given, every facility returned carries its distance, the list ascends by
\* distance, and with a radius given the facilities returned are exactly
\* those of the search without the radius that lie within it.
C13_RankedByDistance ==
    (last.op = "search_facilities" /\ last.criteria.latitude # PyNone
        /\ last.criteria.longitude # PyNone)
    => /\ ~last.ret.ranked => last.ret.found = {}
       /\ \A i, j \in 1..Len(last.ret.list) :
            i <= j => last.ret.list[i].distance_miles <= last.ret.list[j].distance_miles
       /\ last.criteria.max_distance_miles # PyNone =>
            FoundIds(last.ret)
                = {id \in SearchIds_(db, [last.criteria EXCEPT
                                            !.max_distance_miles = PyNone]) :
                    _calculate_distance(Tenths(last.criteria.latitude),
                                        Tenths(last.criteria.longitude),
                                        Stored(db, id).latitude,
                                        Stored(db, id).longitude)
                        <= 10 * Tenths(last.criteria.max_distance_miles)}

\* sub is a run of consecutive characters of text, letter case included.
Contains(text, sub) ==
    \E i \in 0..(Len(text) - Len(sub)) : SubSeq(text, i + 1, i + Len(sub)) = sub

\* C14 as the specification states it: a search by service alone returns
\* the facilities with a stored service name that contains the service
\* string, case-sensitively.
C14_ServiceCaseSensitive ==
    (PlainSearch /\ Truthy(last.criteria.service)
        /\ last.criteria = [NoCriteria EXCEPT !.service = last.criteria.service])
    => FoundIds(last.ret)
        = {id \in StoredIds(db) :
            \E i \in 1..Len(Stored(db, id).services) :
                Contains(Stored(db, id).services[i], last.criteria.service.val)}

\* C15 as the specification states it: a search by attribute filters alone
\* returns the facilities that have every key of the filters with a decoded
\* value whose str() contains the str() of the target.
C15_AttributeFilterDecoded ==
    (PlainSearch /\ DOMAIN last.criteria.attribute_filters # {}
        /\ last.criteria = [NoCriteria EXCEPT !.attribute_filters =
                                last.criteria.attribute_filters])
    => FoundIds(last.ret)
        = {id \in StoredIds(db) :
            \A k \in DOMAIN last.criteria.attribute_filters :
                /\ k \in DOMAIN Stored(db, id).attributes
                /\ Contains(PyStrOf(Stored(db, id).attributes[k]),
                            PyStrOf(last.criteria.attribute_filters[k]))}

-----------------------------------------------------------------------------
(* update_facility_attribute, get_all_facility_ids *)

\* The last call was update_facility_attribute, it returned True, and the
\* facility was stored when it was called.
UpdatedStored ==
    /\ last'.op = "update_facility_attribute"
    /\ last'.ret = TRUE
    /\ SelectFacility(db, last'.facility_id) # {}

\* What a successful update of key k on a stored facility leaves: the
\* attributes as before except the value of k, which is the written value
\* (exact) or what the codec reads back from it; the facility's services and
\* columns other than updated_at as before; every other id's rows as before.
UpdateFrame(d1, d2, id, k, v, exact) ==
    LET before == Stored(d1, id)
        after == Stored(d2, id)
    IN  /\ get_facility(d2, id, FALSE).kind = "facility"
        /\ DOMAIN after.attributes = DOMAIN before.attributes \cup {k}
        /\ SameValue(after.attributes[k], v, exact)
        /\ \A j \in DOMAIN before.attributes \ {k} :
                after.attributes[j] = before.attributes[j]
        /\ after.services = before.services
        /\ [after EXCEPT !.attributes = <<>>, !.updated_at = 0]
                = [before EXCEPT !.attributes = <<>>, !.updated_at = 0]
        /\ \A other \in AllIds \ {id} : RowsOf(d2, other) = RowsOf(d1, other)

\* C16 as the specification states it: after a successful
\* update_facility_attribute(id, k, v) on a stored facility, its attributes
\* are the previous ones with k mapped to v itself, and its services and all
\* other facilities are unchanged.
C16_Original ==
    [][UpdatedStored =>
        UpdateFrame(db, db', last'.facility_id, last'.attribute_key,
                    last'.attribute_value, TRUE)]_vars

\* C16: after a successful update_facility_attribute(id, k, v) on a stored
\* facility, its attributes are the previous ones with k mapped to what the
\* stored encoding of v decodes to (v itself where the codec is faithful);
\* every other key keeps its value, and the services of id and the rows of
\* every other facility are unchanged.
C16_UpdateSetsOneKey ==
    [][UpdatedStored =>
        /\ UpdateFrame(db, db', last'.facility_id, last'.attribute_key,
                       last'.attribute_value, FALSE)
        /\ CodecFaithful(last'.attribute_value) =>
                UpdateFrame(db, db', last'.facility_id, last'.attribute_key,
                            last'.attribute_value, TRUE)]_vars

\* A successful update replaced the value of a key of a stored facility that
\* has another key and a service, while another facility is stored.
C16_Witness ==
    /\ last.op = "update_facility_attribute"
    /\ last.ret = TRUE
    /\ get_facility(db, last.facility_id, FALSE).kind = "facility"
    /\ Stored(db, last.facility_id).attributes[last.attribute_key] = PyInt(5)
    /\ Cardinality(DOMAIN Stored(db, last.facility_id).attributes) >= 2
    /\ Stored(db, last.facility_id).services # <<>>
    /\ \E other \in FacilityIds \ {last.facility_id} :
            RowsOf(db, other).facility_attributes # {}

\* C17 as the specification states it: update_facility_attribute on an id
\* that is not stored reports failure and creates no attribute row.
C17_UpdateAbsentFails ==
    [][(last'.op = "update_facility_attribute"
            /\ SelectFacility(db, last'.facility_id) = {})
        => /\ last'.ret = FALSE
           /\ db'.facility_attributes = db.facility_attributes]_vars

\* No entry of the list occurs twice.
NoDuplicates(seq) == \A i, j \in 1..Len(seq) : seq[i] = seq[j] => i = j

\* C18: in every reachable state the ids get_all_facility_ids lists are
\* exactly the ids for which get_facility returns a facility, each listed
\* once.
C18_IdsAreTheFacilities ==
    LET ids == get_all_facility_ids(db, FALSE)
    IN  /\ Range(ids) = {id \in AllIds : get_facility(db, id, FALSE).kind = "facility"}
        /\ NoDuplicates(ids)

\* get_all_facility_ids listed a stored facility and left out ids whose
\* facility is gone or was never stored but which still have attribute rows.
C18_Witness ==
    /\ last.op = "get_all_facility_ids"
    /\ ~last.fault
    /\ last.ret # <<>>
    /\ \E id \in FacilityIds \ Range(last.ret) : RowsOf(db, id).facility_attributes # {}
    /\ RowsOf(db, MissingId).facility_attributes # {}

-----------------------------------------------------------------------------
(* get_connection *)

\* The with-block has been left.
ConnDone == conn.pc = "done"

\* C19 as the specification states it: every use of get_connection runs
\* open, body, then commit or else rollback and re-raise, then close.
C19_Original ==
    ConnDone =>
        conn.events \in {<<"open", "body", "commit", "close">>,
                         <<"open", "body", "rollback", "close">>}

\* C19: every use of get_connection is opened, runs its body, and is closed
\* last on every way out; a commit that succeeded and a rollback never both
\* occur; a body that raised is never committed (the database is as before
\* the use) and its exception propagates; in between lies a commit, or a
\* rollback (after a body that raised an Exception, or after a commit that
\* itself failed), or nothing when the body raised a BaseException that is
\* no Exception.
C19_ConnectionDiscipline ==
    /\ ConnDone =>
        /\ conn.events \in {<<"open", "body", "commit", "close">>,
                            <<"open", "body", "rollback", "close">>,
                            <<"open", "body", "commit failed", "rollback", "close">>,
                            <<"open", "body", "close">>}
        /\ conn.events = <<"open", "body", "close">> => conn.raised = "BaseException"
        /\ conn.raised = "Exception" => "rollback" \in Range(conn.events)
        /\ conn.raised # "no" => "commit" \notin Range(conn.events)
        /\ "commit" \notin Range(conn.events) => db = conn.before /\ conn.propagates
        /\ "commit" \in Range(conn.events) => ~conn.propagates
    /\ conn.pc \notin {"idle", "done"} => "close" \notin Range(conn.events)
    /\ conn.pc # "idle" =>
            ~("commit" \in Range(conn.events) /\ "rollback" \in Range(conn.events))

\* A use whose body changed the working copy and then raised an Exception
\* has been rolled back and closed.
C19_Witness ==
    /\ ConnDone
    /\ conn.raised = "Exception"
    /\ conn.k = 2
    /\ conn.before.facilities # {}
    /\ conn.events = <<"open", "body", "rollback", "close">>

-----------------------------------------------------------------------------
(* _execute_function *)

-----------------------------------------------------------------------------
(* process_natural_language_query *)

\* C21: when the classifier gives no function call,
\* process_natural_language_query returns success False with an error
\* message, dispatches to no handler, raises nothing and leaves the store as
\* it was.
C21_ClassifierFailure ==
    [][(last'.op = "process_natural_language_query"
            /\ last'.function_call = NoFunctionCall)
       => /\ last'.ret.success = FALSE
          /\ "error" \in DOMAIN last'.ret
          /\ last'.ret.error # ""
          /\ ~last'.dispatched
          /\ last'.handler = ""
          /\ ~last'.raised
          /\ db' = db]_vars

\* A query for which the classifier gave nothing, on a store that holds
\* facilities.
C21_Witness ==
    /\ last.op = "process_natural_language_query"
    /\ last.function_call = NoFunctionCall
    /\ last.ret.success = FALSE
    /\ Cardinality(db.facilities) = 2

-----------------------------------------------------------------------------
(* _calculate_distance *)

\* C22 as the specification states it: _calculate_distance raises for no
\* pair of valid coordinates, antipodal ones included; its result is not
\* negative, is the same in both directions and is 0 for one and the same
\* point.
C22_DistanceTotal ==
    last.op = "_calculate_distance" =>
        /\ ~last.ret.raised
        /\ last.ret.miles >= 0
        /\ last.ret = last.back
        /\ (last.lat1 = last.lat2 /\ last.lon1 = last.lon2) => last.ret.miles = 0

-----------------------------------------------------------------------------
(* generate_function_call *)

\* C23 as the specification states it: one call of generate_function_call
\* sends at most two requests, the second only after the first was answered
\* 401 and the key was refreshed, no answer to the second leads to a third,
\* and the call ends by returning a function call or None, never by raising.
C23_BoundedRetry ==
    gc.pc # "idle" =>
        /\ gc.requests <= 2
        /\ Len(gc.answers) <= gc.requests
        /\ gc.requests = 2 => gc.answers[1].status = 401 /\ gc.refreshed
        /\ gc.pc = "returned" => ~gc.outcome.raised

-----------------------------------------------------------------------------
(* get_facility: the services *)

\* The service names stored for a facility id.
StoredServices(d, facility_id) ==
    {r.service_name : r \in RowsOf(d, facility_id).facility_services}

\* C24: get_facility returns the services of a facility in ascending
\* lexicographic order, whatever the order add_facility was given them in,
\* and each stored service name exactly once.
C24_ServicesSorted ==
    \A id \in AllIds :
        get_facility(db, id, FALSE).kind = "facility" =>
            LET services == Stored(db, id).services
            IN  /\ \A i \in 1..(Len(services) - 1) : TextLess(services[i], services[i + 1])
                /\ Range(services) = StoredServices(db, id)
                /\ Len(services) = Cardinality(StoredServices(db, id))

\* add_facility was given two services in descending order and the facility
\* is read with them in ascending order.
C24_Witness ==
    /\ last.op = "add_facility"
    /\ last.ret = TRUE
    /\ Len(last.input.services) = 2
    /\ TextLess(last.input.services[2], last.input.services[1])
    /\ get_facility(db, last.facility_id, FALSE).kind = "facility"
    /\ Stored(db, last.facility_id).services
            = <<last.input.services[2], last.input.services[1]>>

-----------------------------------------------------------------------------
(* schedule_appointment: concurrent calls, appointment ids *)

\* The appointments attribute of a stored facility, as get_facility gives
\* it: a list of records, empty when there is none.
AppointmentsOf(d, facility_id) ==
    LET f == get_facility(d, facility_id, FALSE)
    IN  IF f.kind = "facility" /\ T_appointments \in DOMAIN f.val.attributes
           /\ f.val.attributes[T_appointments].kind = "list"
        THEN f.val.attributes[T_appointments].val ELSE <<>>

\* The call returned its success dict.
Scheduled(call) == call.pc = "done" /\ ~call.raised /\ call.ret.kind = "scheduled"

\* C25 as the specification states it: when two schedule_appointment calls
\* on one facility that ran at the same time have both returned success,
\* the facility's appointments hold the record of each.
C25_NoLostAppointment ==
    (\A c \in Callers : Scheduled(sched[c])) =>
        \A c \in Callers :
            \E i \in 1..Len(AppointmentsOf(db, "hosp_001")) :
                DictGet(AppointmentsOf(db, "hosp_001")[i], PyStr(T_patient_id), PyNone)
                    = PatientOf(c)

\* C26 as the specification states it: the appointment_id values of the
\* records of one facility's appointments are pairwise distinct, also for
\* calls made within one second.
C26_AppointmentIdsDistinct ==
    \A id \in FacilityIds :
        LET appointments == AppointmentsOf(db, id)
        IN  \A i, j \in 1..Len(appointments) :
                (/\ appointments[i].kind = "dict"
                 /\ appointments[j].kind = "dict"
                 /\ DictGet(appointments[i], PyStr(T_appointment_id), PyNone)
                        = DictGet(appointments[j], PyStr(T_appointment_id), PyNone))
                => i = j

-----------------------------------------------------------------------------
(* The stored attribute rows *)

\* C27: every attribute row that add_facility and update_facility_attribute
\* leave in the store decodes without error, and so get_facility returns a
\* facility for every id that has a facilities row.
C27_StoredRowsDecode ==
    /\ \A r \in db.facility_attributes :
            ~_parse_attribute_value(r.attribute_value, r.attribute_type).raised
    /\ \A id \in AllIds :
            SelectFacility(db, id) # {} => get_facility(db, id, FALSE).kind = "facility"

\* After a successful update_facility_attribute the store holds rows of all
\* five tags.
C27_Witness ==
    /\ last.op = "update_facility_attribute"
    /\ last.ret = TRUE
    /\ {r.attribute_type : r \in db.facility_attributes}
            = {"boolean", "integer", "float", "json", "text"}
    /\ get_facility(db, last.facility_id, FALSE).kind = "facility"

-----------------------------------------------------------------------------
(* The rows a search fetches *)

\* How many rows the query of the criteria c fetches for the id.
TimesFetched(d, id, c) ==
    FetchedTimes(d, id, c.facility_type, c.service, c.min_rating, c.attribute_filters)

\* The ids of the entries of a search's result, in the order of a ranked one.
ListedIds(ret) == [i \in DOMAIN ret.list |-> ret.list[i].facility.id]

-----------------------------------------------------------------------------
(* Location and radius of the finders *)

\* The last call was a finder that returned.
FinderReturned ==
    /\ last.op = "_execute_function"
    /\ last.handler \in {"find_healthcare_facilities", "search_facilities_by_service"}
    /\ ~last.raised

-----------------------------------------------------------------------------
(* The sample data *)

\* C30: constructing HealthcareMapAI with the sample data left on returns;
\* over a store that holds a facility it leaves the store as it was, and over
\* a store that holds none it leaves the four sample facilities, each stored
\* once.
C30_SampleDataOnlyWhenEmpty ==
    [][(last'.op = "__init__" /\ last'.initialize_sample_data /\ ~last'.fault) =>
            /\ ~last'.raised
            /\ StoredIds(db) # {} => db' = db
            /\ StoredIds(db) = {} =>
                    /\ StoredIds(db') = SampleIds
                    /\ Cardinality(db'.facilities) = Cardinality(SampleIds)]_vars


====
